---- MODULE Spec2Model ----
(***************************************************************************)
(* Model of the invocation process and resource-movement engine of         *)
(* radix-engine (src/radix-engine/src/execution/process.rs).               *)
(*                                                                         *)
(* A state is the stack of live Process frames (frames[1] is the root      *)
(* process at depth 0, the last element is the frame that is executing),   *)
(* the transaction-scoped Runtime (resource definitions, vaults,           *)
(* components, id counters, packages, log), the committed ledger, the     *)
(* status of the transaction and the outcome of the last operation.        *)
(***************************************************************************)
EXTENDS Naturals, Integers, Sequences, FiniteSets, TLC

\* ------------------------------------------------------------------ bounds
MaxBid == 2
MaxRid == 2
MaxRes == 1
MaxVault == 1
MaxDepth == 3
MaxAmount == 1
MaxComp == 2
MaxSid == 1
AirdropVaults == 2
MoveOwned == 3
MoveAmount == 2
MoveBids == 5
MaxLogs == 3
MaxPkg == 4

\* ------------------------------------------------------- program constants
SCRYPTO_TYPE_U256 == 128
SCRYPTO_TYPE_ADDRESS == 129
SCRYPTO_TYPE_BID == 131
SCRYPTO_TYPE_RID == 132

VARIABLES frames, resource_defs, vaults, components, storages, counters, status, last,
          ledger, logs, packages

vars == <<frames, resource_defs, vaults, components, storages, counters, status, last,
          ledger, logs, packages>>

\* --------------------------------------------------------------- HashMaps
EmptyMap == << >>

MapInsert(m, k, v) == [x \in (DOMAIN m) \cup {k} |-> IF x = k THEN v ELSE m[x]]

MapRemove(m, k) == [x \in (DOMAIN m) \ {k} |-> m[x]]

MapExtend(m, n) == [x \in (DOMAIN m) \cup (DOMAIN n) |-> IF x \in DOMAIN n THEN n[x] ELSE m[x]]

RECURSIVE SumOver(_, _)
SumOver(S, f) ==
    IF S = {} THEN 0
    ELSE LET x == CHOOSE y \in S : TRUE IN f[x] + SumOver(S \ {x}, f)

\* -------------------------------------------------------------- addresses
PackageAddress(p) == <<"Package", p>>

ComponentAddress(c) == <<"Component", c>>

ResourceAddress(r) == <<"Resource", r>>

\* Packages present in the ledger when the transaction starts.
Packages == {PackageAddress(1), PackageAddress(2)}

\* The code of the packages present when the transaction starts.
LedgerPackages == [address \in Packages |-> "code0"]

\* Blueprints whose <name>_main export exists in every published package.
Blueprints == {"Bp"}

\* ---------------------------------------------------- Bucket, Vault, Ref
Bucket(amount, resource) == [amount |-> amount, resource |-> resource]

\* Bucket::put: requires identical resource address; sums amounts.
BucketPut(b, other) ==
    IF other.resource # b.resource
    THEN [result |-> "MismatchingResourceType", bucket |-> b]
    ELSE [result |-> "Ok", bucket |-> Bucket(b.amount + other.amount, b.resource)]

\* Bucket::take: requires amount <= self.amount; returns a new bucket and
\* deducts in place.
BucketTake(b, amount) ==
    IF b.amount < amount
    THEN [result |-> "InsufficientBalance", bucket |-> b, taken |-> b]
    ELSE [result |-> "Ok", bucket |-> Bucket(b.amount - amount, b.resource),
          taken |-> Bucket(amount, b.resource)]

Vault(bucket, auth) == [bucket |-> bucket, auth |-> auth]

\* Vault::put: requires caller == vault.authority, delegates to Bucket::put.
VaultPut(v, other, package) ==
    IF package # v.auth
    THEN [result |-> "UnauthorizedAccess", vault |-> v]
    ELSE LET r == BucketPut(v.bucket, other)
         IN [result |-> r.result, vault |-> [v EXCEPT !.bucket = r.bucket]]

\* Vault::take: same authority rule; produces a new bucket.
VaultTake(v, amount, package) ==
    IF package # v.auth
    THEN [result |-> "UnauthorizedAccess", vault |-> v, taken |-> v.bucket]
    ELSE LET r == BucketTake(v.bucket, amount)
         IN [result |-> r.result, vault |-> [v EXCEPT !.bucket = r.bucket],
             taken |-> r.taken]

\* Component::new(blueprint, state), with blueprint = (package, name).
Component(blueprint, state) == [blueprint |-> blueprint, state |-> state]

\* Storage::new(auth): an empty key-value map owned by a package.
Storage(auth) == [auth |-> auth, entries |-> << >>]

\* Storage::get_entry: Some(value) or None.
StorageGetEntry(st, key) ==
    IF key \in DOMAIN st.entries THEN <<"Some", st.entries[key]>> ELSE <<"None">>

\* Storage::set_entry
StorageSetEntry(st, key, value) ==
    [st EXCEPT !.entries = [k \in (DOMAIN @) \cup {key} |-> IF k = key THEN value ELSE @[k]]]

\* LockedBucket::new(bid, bucket); a BucketRef is a shared pointer to it.
LockedBucket(bid, bucket) == [bucket_id |-> bid, bucket |-> bucket]

\* From<LockedBucket> for Bucket.
IntoBucket(locked) == locked.bucket

\* ------------------------------------------------------------ SBOR values
Unit == [kind |-> "Unit"]

Custom(ty, data) == [kind |-> "Custom", ty |-> ty, data |-> data]

Composite(kind, values) == [kind |-> kind, values |-> values]

MapValue(kind, pairs) == [kind |-> kind, pairs |-> pairs]

BidLeaf(bid) == Custom(SCRYPTO_TYPE_BID, bid)

RidLeaf(rid) == Custom(SCRYPTO_TYPE_RID, rid)

\* ---------------------------------------------------------------- Process
\* Process::new: a process which is not yet started (vm = None).
NewProcess ==
    [depth |-> 0,
     package |-> "None",
     buckets |-> EmptyMap,
     references |-> EmptyMap,
     locked_buckets |-> EmptyMap,
     moving_buckets |-> EmptyMap,
     moving_references |-> EmptyMap]

\* The frame that is executing: the deepest live frame.
Top == frames[Len(frames)]

Ok(self) == [self |-> self, result |-> "Ok"]

Err(self, e) == [self |-> self, result |-> e]

\* Ok(value) of a function that also changed the frame.
OkWith(self, value) == [self |-> self, result |-> "Ok", value |-> value]

\* Variant: the bucket is copied into the moving set and stays owned.
move_buckets_copy(self, bid) ==
    IF bid \notin DOMAIN self.buckets
    THEN Err(self, "BucketNotFound")
    ELSE OkWith([self EXCEPT !.moving_buckets = MapInsert(@, bid, self.buckets[bid])], bid)

\* Variant: a bucket that is locked by a reference may be moved as well.
move_buckets_locked(self, bid) ==
    IF bid \in DOMAIN self.buckets
    THEN OkWith([self EXCEPT !.buckets = MapRemove(@, bid),
                             !.moving_buckets = MapInsert(@, bid, self.buckets[bid])], bid)
    ELSE IF bid \in DOMAIN self.locked_buckets
    THEN OkWith([self EXCEPT !.locked_buckets = MapRemove(@, bid),
                             !.moving_buckets =
                                 MapInsert(@, bid, IntoBucket(self.locked_buckets[bid]))], bid)
    ELSE Err(self, "BucketNotFound")

\* Process::move_buckets
move_buckets(self, bid) ==
    IF bid \notin DOMAIN self.buckets
    THEN Err(self, "BucketNotFound")
    ELSE OkWith([self EXCEPT !.buckets = MapRemove(@, bid),
                             !.moving_buckets = MapInsert(@, bid, self.buckets[bid])], bid)

\* Variant: the reference is copied into the moving set and stays held.
move_references_copy(self, rid) ==
    IF rid \notin DOMAIN self.references
    THEN Err(self, "ReferenceNotFound")
    ELSE OkWith([self EXCEPT !.moving_references = MapInsert(@, rid, self.references[rid])], rid)

\* Process::move_references
move_references(self, rid) ==
    IF rid \notin DOMAIN self.references
    THEN Err(self, "ReferenceNotFound")
    ELSE OkWith([self EXCEPT !.references = MapRemove(@, rid),
                             !.moving_references = MapInsert(@, rid, self.references[rid])], rid)

\* Variant: a bucket leaf passes the reject walk.
reject_buckets_allow(self, bid) == OkWith(self, bid)

\* Process::reject_buckets
reject_buckets(self, bid) == Err(self, "BucketMoveNotAllowed")

\* Variant: a reference leaf passes the reject walk.
reject_references_allow(self, rid) == OkWith(self, rid)

\* Process::reject_references
reject_references(self, rid) == Err(self, "ReferenceMoveNotAllowed")

\* Variant: a leaf the classification accepted is written back tagged as a
\* bucket id, whatever it was.
visit_custom_retag(self, ty, data, mode) ==
    IF ty \in {SCRYPTO_TYPE_BID, SCRYPTO_TYPE_RID}
    THEN LET r == IF ty = SCRYPTO_TYPE_BID
                  THEN (IF mode = "move" THEN move_buckets(self, data)
                        ELSE reject_buckets(self, data))
                  ELSE (IF mode = "move" THEN move_references(self, data)
                        ELSE reject_references(self, data))
         IN IF r.result # "Ok" THEN r ELSE OkWith(r.self, Custom(SCRYPTO_TYPE_BID, r.value))
    ELSE OkWith(self, Custom(ty, data))

\* Process::visit_custom; mode selects the pair (bf, rf) of classifications.
\* A bucket or reference leaf is rewritten to the id the classification
\* function returns.
visit_custom(self, ty, data, mode) ==
    IF ty \in {SCRYPTO_TYPE_BID, SCRYPTO_TYPE_RID}
    THEN LET r == IF ty = SCRYPTO_TYPE_BID
                  THEN (IF mode = "move" THEN move_buckets(self, data)
                        ELSE reject_buckets(self, data))
                  ELSE (IF mode = "move" THEN move_references(self, data)
                        ELSE reject_references(self, data))
         IN IF r.result # "Ok" THEN r ELSE OkWith(r.self, Custom(ty, r.value))
    ELSE OkWith(self, Custom(ty, data))

RECURSIVE visit(_, _, _)
RECURSIVE visit_vec(_, _, _)
RECURSIVE visit_map(_, _, _)

\* Process::visit
visit(self, v, mode) ==
    CASE v.kind = "Custom" -> visit_custom(self, v.ty, v.data, mode)
      [] v.kind \in {"Option", "Box", "Array", "Tuple", "Struct", "Enum",
                     "Vec", "TreeSet", "HashSet"} ->
            LET r == visit_vec(self, v.values, mode)
            IN IF r.result # "Ok" THEN r ELSE OkWith(r.self, Composite(v.kind, r.value))
      [] v.kind \in {"TreeMap", "HashMap"} ->
            LET r == visit_map(self, v.pairs, mode)
            IN IF r.result # "Ok" THEN r ELSE OkWith(r.self, MapValue(v.kind, r.value))
      [] OTHER -> OkWith(self, v)

\* Process::visit_vec (also the body of visit_fields)
visit_vec(self, values, mode) ==
    IF values = << >> THEN OkWith(self, << >>)
    ELSE LET r == visit(self, Head(values), mode)
         IN IF r.result # "Ok" THEN r
            ELSE LET rest == visit_vec(r.self, Tail(values), mode)
                 IN IF rest.result # "Ok" THEN rest
                    ELSE OkWith(rest.self, <<r.value>> \o rest.value)

RECURSIVE visit_map_values_only(_, _, _)

\* Variant: the keys of a map are copied without being visited.
visit_map_values_only(self, pairs, mode) ==
    IF pairs = << >> THEN OkWith(self, << >>)
    ELSE LET rv == visit(self, Head(pairs)[2], mode)
         IN IF rv.result # "Ok" THEN rv
            ELSE LET rest == visit_map_values_only(rv.self, Tail(pairs), mode)
                 IN IF rest.result # "Ok" THEN rest
                    ELSE OkWith(rest.self, << <<Head(pairs)[1], rv.value>> >> \o rest.value)

\* Process::visit_map
visit_map(self, pairs, mode) ==
    IF pairs = << >> THEN OkWith(self, << >>)
    ELSE LET rk == visit(self, Head(pairs)[1], mode)
         IN IF rk.result # "Ok" THEN rk
            ELSE LET rv == visit(rk.self, Head(pairs)[2], mode)
                 IN IF rv.result # "Ok" THEN rv
                    ELSE LET rest == visit_map(rv.self, Tail(pairs), mode)
                         IN IF rest.result # "Ok" THEN rest
                            ELSE OkWith(rest.self, << <<rk.value, rv.value>> >> \o rest.value)

\* Process::process_data: the payload is held as the Value that parse_any
\* yields; the result is the visited Value, which write_any encodes.
process_data(self, data, mode) == visit(self, data, mode)

\* The loop over invocation.args at the head of Process::call.
RECURSIVE process_args(_, _)
process_args(self, args) ==
    IF args = << >> THEN Ok(self)
    ELSE LET r == process_data(self, Head(args), "move")
         IN IF r.result # "Ok" THEN r ELSE process_args(r.self, Tail(args))

\* Variant: only the references are installed; the buckets handed over are
\* dropped.
put_buckets_and_refs_refs_only(self, buckets, references) ==
    [self EXCEPT !.references = MapExtend(@, references)]

\* Process::put_buckets_and_refs
put_buckets_and_refs(self, buckets, references) ==
    [self EXCEPT !.buckets = MapExtend(@, buckets),
                 !.references = MapExtend(@, references)]

\* Process::take_moving_buckets_and_refs: drains both moving sets.
take_moving_buckets_and_refs(self) ==
    [self |-> [self EXCEPT !.moving_buckets = EmptyMap, !.moving_references = EmptyMap],
     buckets |-> self.moving_buckets,
     references |-> self.moving_references]

\* Number of BucketRef handles a frame holds for the locked bucket bid.
RefsIn(f, bid) ==
    Cardinality({rid \in DOMAIN f.references : f.references[rid].bucket_id = bid})
    + Cardinality({rid \in DOMAIN f.moving_references :
                      f.moving_references[rid].bucket_id = bid})

\* Outstanding references to bid over a stack of frames.
RefCount(fs, bid) == SumOver(DOMAIN fs, [i \in DOMAIN fs |-> RefsIn(fs[i], bid)])

\* Rc::strong_count of the LockedBucket bid: the entry of the locking
\* frame's locked_buckets plus every BucketRef clone held by a live frame.
StrongCount(fs, bid) == 1 + RefCount(fs, bid)

\* Variant: the balances of the owned buckets are not checked.
finalize_no_balances(self) ==
    IF /\ DOMAIN self.locked_buckets = {}
       /\ DOMAIN self.references = {}
    THEN "Ok"
    ELSE "ResourceLeak"

\* Variant: only the balances of the owned buckets are checked.
finalize_balances_only(self) ==
    IF \A bid \in DOMAIN self.buckets : self.buckets[bid].amount = 0
    THEN "Ok"
    ELSE "ResourceLeak"

\* Process::finalize
finalize(self) ==
    IF /\ \A bid \in DOMAIN self.buckets : self.buckets[bid].amount = 0
       /\ DOMAIN self.locked_buckets = {}
       /\ DOMAIN self.references = {}
    THEN "Ok"
    ELSE "ResourceLeak"

\* Variant: the scan compares the strong count with zero, forgetting the
\* count held by the locked set itself, and so unlocks nothing.
unlock_scan_zero(self, fs) ==
    LET bids == {bid \in DOMAIN self.locked_buckets : StrongCount(fs, bid) = 0}
    IN [self EXCEPT
          !.locked_buckets = [b \in (DOMAIN @) \ bids |-> @[b]],
          !.buckets = MapExtend(@, [b \in bids |-> IntoBucket(self.locked_buckets[b])])]

\* Variant: the scan has no filter on the strong count and unlocks every
\* locked bucket.
unlock_scan_all(self, fs) ==
    LET bids == DOMAIN self.locked_buckets
    IN [self EXCEPT
          !.locked_buckets = [b \in (DOMAIN @) \ bids |-> @[b]],
          !.buckets = MapExtend(@, [b \in bids |-> IntoBucket(self.locked_buckets[b])])]

\* Process::call, the scan of locked buckets after a child has returned:
\* every locked bucket whose strong count is one goes back to the owned set.
unlock_scan(self, fs) ==
    LET bids == {bid \in DOMAIN self.locked_buckets : StrongCount(fs, bid) = 1}
    IN [self EXCEPT
          !.locked_buckets = [b \in (DOMAIN @) \ bids |-> @[b]],
          !.buckets = MapExtend(@, [b \in bids |-> IntoBucket(self.locked_buckets[b])])]

\* ------------------------------------------------------- inputs (bounded)
Bids == 1..MaxBid

Rids == 1..MaxRid

Amounts == 0..MaxAmount

\* Addresses a guest may name as a resource; the last one is never defined.
Resources == {ResourceAddress(r) : r \in 1..(MaxRes + 1)}

Vids == 1..MaxVault

\* Components present in the ledger when the transaction starts.
LedgerComponents ==
    [c \in {ComponentAddress(1)} |-> [blueprint |-> <<PackageAddress(1), "Bp">>, state |-> Unit]]

\* Addresses a guest may name as the minter of a mutable resource: a package
\* other than its own, a component of its own package, a component that
\* does not exist and an address that is neither.
Minters == {PackageAddress(2), ComponentAddress(1), ComponentAddress(2), ResourceAddress(1)}

\* Payloads a guest may pass as an argument or a return value.
Payloads ==
    {Unit}
    \cup {BidLeaf(b) : b \in Bids}
    \cup {Composite("Option", <<RidLeaf(r)>>) : r \in Rids}
    \cup {Composite("Tuple", <<BidLeaf(1), BidLeaf(b)>>) : b \in {1, 2}}
    \cup {Composite("Struct", <<Custom(SCRYPTO_TYPE_ADDRESS, PackageAddress(1)),
                                BidLeaf(1), RidLeaf(1)>>),
          MapValue("TreeMap", << <<RidLeaf(1), RidLeaf(2)>> >>)}

ArgLists ==
    {<< >>} \cup {<<p>> : p \in Payloads} \cup {<<RidLeaf(2), BidLeaf(2)>>}

\* Inputs of call_function: the blueprints that exist with every argument
\* list, a package that does not exist and a blueprint that does not.
Calls ==
    {<<<<PackageAddress(1), b>>, args>> : b \in Blueprints, args \in ArgLists}
    \cup {<<<<PackageAddress(3), "Bp">>, << >>>>, <<<<PackageAddress(1), "Missing">>, <<BidLeaf(1)>>>>}

\* Inputs of call_method: the component that exists, with and without
\* handles among the arguments, and a component that does not exist.
MethodCalls ==
    {<<ComponentAddress(1), args>> :
        args \in {<< >>, <<BidLeaf(2)>>, <<Composite("Option", <<RidLeaf(2)>>)>>}}
    \cup {<<ComponentAddress(2), << >>>>}

\* What an export hands back: a pointer to return data, nothing, or a value
\* that is not a pointer.
Returns ==
    {<<"ptr", data>> : data \in Payloads} \cup {<<"none", Unit>>, <<"wrong", Unit>>}

RECURSIVE Leaves(_)
RECURSIVE LeavesOfSeq(_)
RECURSIVE LeavesOfPairs(_)

\* The bucket and reference leaves of a value, in the order visit meets them.
Leaves(v) ==
    CASE v.kind = "Custom" ->
            IF v.ty \in {SCRYPTO_TYPE_BID, SCRYPTO_TYPE_RID} THEN << <<v.ty, v.data>> >> ELSE << >>
      [] v.kind \in {"TreeMap", "HashMap"} -> LeavesOfPairs(v.pairs)
      [] v.kind = "Unit" -> << >>
      [] OTHER -> LeavesOfSeq(v.values)

LeavesOfSeq(vs) == IF vs = << >> THEN << >> ELSE Leaves(Head(vs)) \o LeavesOfSeq(Tail(vs))

LeavesOfPairs(ps) ==
    IF ps = << >> THEN << >>
    ELSE Leaves(Head(ps)[1]) \o Leaves(Head(ps)[2]) \o LeavesOfPairs(Tail(ps))

\* ------------------------------------------------------------------- Init
\* The operation that ran last and its result: "Ok", or the error that
\* reached the root driver; unlocked holds the bucket ids of the debug lines
\* "Changing bucket .. to unlocked state" that the operation logged.
\* The transaction's view of the ledger, held by the Runtime: every handler
\* reads and writes these maps and none writes the ledger itself.
RuntimeView ==
    [resource_defs |-> resource_defs, vaults |-> vaults,
     components |-> components, storages |-> storages, packages |-> packages]

Outcome(op, result) == [op |-> op, result |-> result, unlocked |-> {}]

Init ==
    /\ frames = <<NewProcess>>
    /\ resource_defs = EmptyMap
    /\ vaults = EmptyMap
    /\ components = LedgerComponents
    /\ storages = EmptyMap
    /\ counters = [bid |-> 1, rid |-> 1, vid |-> 1, sid |-> 1, res |-> 1, com |-> 2, pkg |-> 3]
    /\ status = "running"
    /\ last = Outcome("start_process", "Ok")
    /\ logs = << >>
    /\ packages = LedgerPackages
    /\ ledger = RuntimeView

Running == status = "running"

InGuest == Running /\ Len(frames) >= 2

\* Variant: below another guest, a host call works on the frame of the
\* suspended caller.
SetTop_caller(self) ==
    [frames EXCEPT ![IF Len(frames) >= 3 THEN Len(frames) - 1 ELSE Len(frames)] = self]

\* The handlers work on the executing frame, the deepest one.
SetTop(self) == [frames EXCEPT ![Len(frames)] = self]

\* A handler returned Ok: the guest (or the root driver) goes on.
Return(op, self) ==
    /\ frames' = SetTop(self)
    /\ status' = "running"
    /\ last' = Outcome(op, "Ok")
    /\ UNCHANGED <<ledger, logs, packages>>

\* Variant: the error ends the failing frame only; its caller goes on.
Trap_resume(op, self, e) ==
    /\ frames' = IF Len(frames) = 1 THEN <<self>> ELSE SubSeq(frames, 1, Len(frames) - 1)
    /\ status' = IF Len(frames) <= 2 THEN "failed" ELSE "running"
    /\ last' = Outcome(op, e)
    /\ UNCHANGED <<ledger, logs, packages>>

\* A handler returned Err.  In a guest the error becomes a trap that aborts
\* the invocation: the run of the executing frame fails, its caller's
\* Process::call returns the error through `?`, that caller's handler fails
\* in turn, and so on up to the root driver; every child process is dropped
\* on the way.  Only the root process is left, in the state in which its
\* top-level call left it after the argument walk.
Trap(op, self, e) ==
    /\ frames' = IF Len(frames) = 1 THEN <<self>> ELSE <<frames[1]>>
    /\ status' = "failed"
    /\ last' = Outcome(op, e)
    /\ UNCHANGED <<ledger, logs, packages>>

\* ------------------------------------------- handlers on the frame's sets
\* handle_create_bucket
handle_create_bucket(self, new_bid, resource) ==
    Ok([self EXCEPT !.buckets = MapInsert(@, new_bid, Bucket(0, resource))])

\* Variant: `other` is read with get instead of remove and stays owned.
handle_put_into_bucket_get(self, bucket, other) ==
    IF other \notin DOMAIN self.buckets THEN Err(self, "BucketNotFound")
    ELSE IF bucket \notin DOMAIN self.buckets THEN Err(self, "BucketNotFound")
    ELSE LET r == BucketPut(self.buckets[bucket], self.buckets[other])
         IN IF r.result # "Ok" THEN Err(self, r.result)
            ELSE Ok([self EXCEPT !.buckets[bucket] = r.bucket])

\* handle_put_into_bucket: `other` leaves the owned set before the
\* destination is looked up.
handle_put_into_bucket(self, bucket, other) ==
    IF other \notin DOMAIN self.buckets THEN Err(self, "BucketNotFound")
    ELSE LET self1 == [self EXCEPT !.buckets = MapRemove(@, other)]
         IN IF bucket \notin DOMAIN self1.buckets THEN Err(self1, "BucketNotFound")
            ELSE LET r == BucketPut(self1.buckets[bucket], self.buckets[other])
                 IN IF r.result # "Ok" THEN Err(self1, r.result)
                    ELSE Ok([self1 EXCEPT !.buckets[bucket] = r.bucket])

\* Variant: the source bucket is read, not updated.
handle_take_from_bucket_keep(self, new_bid, bucket, amount) ==
    IF bucket \notin DOMAIN self.buckets THEN Err(self, "BucketNotFound")
    ELSE LET r == BucketTake(self.buckets[bucket], amount)
         IN IF r.result # "Ok" THEN Err(self, r.result)
            ELSE Ok([self EXCEPT !.buckets = MapInsert(@, new_bid, r.taken)])

\* handle_take_from_bucket
handle_take_from_bucket(self, new_bid, bucket, amount) ==
    IF bucket \notin DOMAIN self.buckets THEN Err(self, "BucketNotFound")
    ELSE LET r == BucketTake(self.buckets[bucket], amount)
         IN IF r.result # "Ok" THEN Err(self, r.result)
            ELSE Ok([self EXCEPT !.buckets =
                        MapInsert([@ EXCEPT ![bucket] = r.bucket], new_bid, r.taken)])

\* Variant: the first borrow reads the bucket with get instead of remove, so
\* the bucket stays in the owned set while it is locked.
handle_create_reference_get(self, rid, bid) ==
    IF bid \in DOMAIN self.locked_buckets
    THEN Ok([self EXCEPT !.references = MapInsert(@, rid, self.locked_buckets[bid])])
    ELSE IF bid \notin DOMAIN self.buckets THEN Err(self, "BucketNotFound")
         ELSE LET bucket == LockedBucket(bid, self.buckets[bid])
              IN Ok([self EXCEPT !.references = MapInsert(@, rid, bucket),
                                 !.locked_buckets = MapInsert(@, bid, bucket)])

\* handle_create_reference
handle_create_reference(self, rid, bid) ==
    IF bid \in DOMAIN self.locked_buckets
    THEN \* re-borrow
         Ok([self EXCEPT !.references = MapInsert(@, rid, self.locked_buckets[bid])])
    ELSE \* first time borrow
         IF bid \notin DOMAIN self.buckets THEN Err(self, "BucketNotFound")
         ELSE LET bucket == LockedBucket(bid, self.buckets[bid])
              IN Ok([self EXCEPT !.buckets = MapRemove(@, bid),
                                 !.references = MapInsert(@, rid, bucket),
                                 !.locked_buckets = MapInsert(@, bid, bucket)])

\* Variant: the strong count is not looked at and any drop by the locking
\* frame reverts the bucket.
handle_drop_reference_no_count(fs, rid) ==
    LET self == fs[Len(fs)]
    IN IF rid \notin DOMAIN self.references THEN Err(self, "ReferenceNotFound")
       ELSE LET bid == self.references[rid].bucket_id
                self1 == [self EXCEPT !.references = MapRemove(@, rid)]
            IN IF bid \in DOMAIN self1.locked_buckets
               THEN Ok([self1 EXCEPT
                          !.locked_buckets = MapRemove(@, bid),
                          !.buckets = MapInsert(@, bid, IntoBucket(self1.locked_buckets[bid]))])
               ELSE Ok(self1)

\* Variant: the strong count is read after the dropped reference is gone and
\* still reduced by one, so the last drop sees zero and reverts nothing.
handle_drop_reference_late_count(fs, rid) ==
    LET self == fs[Len(fs)]
    IN IF rid \notin DOMAIN self.references THEN Err(self, "ReferenceNotFound")
       ELSE LET bid == self.references[rid].bucket_id
                self1 == [self EXCEPT !.references = MapRemove(@, rid)]
                count == StrongCount([fs EXCEPT ![Len(fs)] = self1], bid) - 1
            IN IF count = 1 /\ bid \in DOMAIN self1.locked_buckets
               THEN Ok([self1 EXCEPT
                          !.locked_buckets = MapRemove(@, bid),
                          !.buckets = MapInsert(@, bid, IntoBucket(self1.locked_buckets[bid]))])
               ELSE Ok(self1)

\* handle_drop_reference; fs is the stack of live frames, its last element
\* the frame that executes the handler.
handle_drop_reference(fs, rid) ==
    LET self == fs[Len(fs)]
    IN IF rid \notin DOMAIN self.references THEN Err(self, "ReferenceNotFound")
       ELSE LET bid == self.references[rid].bucket_id
                count == StrongCount(fs, bid) - 1
                self1 == [self EXCEPT !.references = MapRemove(@, rid)]
            IN IF count = 1 /\ bid \in DOMAIN self1.locked_buckets
               THEN Ok([self1 EXCEPT
                          !.locked_buckets = MapRemove(@, bid),
                          !.buckets = MapInsert(@, bid, IntoBucket(self1.locked_buckets[bid]))])
               ELSE Ok(self1)

\* The handler's result becomes the next state of the executing frame.
Finish(op, r) ==
    IF r.result = "Ok" THEN Return(op, r.self) ELSE Trap(op, r.self, r.result)

\* Variant: the Runtime hands out any bucket id that is not in use.
CreateBucket_any(resource) ==
    /\ InGuest
    /\ counters.bid <= MaxBid
    /\ \E new_bid \in 1..(MaxBid + 1) :
          /\ \A i \in DOMAIN frames :
                new_bid \notin DOMAIN frames[i].buckets \cup DOMAIN frames[i].locked_buckets
                                \cup DOMAIN frames[i].moving_buckets
          /\ Finish("create_bucket", handle_create_bucket(Top, new_bid, resource))
    /\ counters' = [counters EXCEPT !.bid = @ + 1]
    /\ UNCHANGED <<resource_defs, vaults, components, storages>>

CreateBucket(resource) ==
    /\ InGuest
    /\ counters.bid <= MaxBid
    /\ Finish("create_bucket", handle_create_bucket(Top, counters.bid, resource))
    /\ counters' = [counters EXCEPT !.bid = @ + 1]
    /\ UNCHANGED <<resource_defs, vaults, components, storages>>

PutIntoBucket(bucket, other) ==
    /\ InGuest
    /\ Finish("put_into_bucket", handle_put_into_bucket(Top, bucket, other))
    /\ UNCHANGED <<resource_defs, vaults, components, storages, counters>>

TakeFromBucket(bucket, amount) ==
    /\ InGuest
    /\ counters.bid <= MaxBid
    /\ LET r == handle_take_from_bucket(Top, counters.bid, bucket, amount)
       IN /\ Finish("take_from_bucket", r)
          /\ counters' = IF r.result = "Ok" THEN [counters EXCEPT !.bid = @ + 1] ELSE counters
    /\ UNCHANGED <<resource_defs, vaults, components, storages>>

CreateReference(bid) ==
    /\ InGuest
    /\ counters.rid <= MaxRid
    /\ Finish("create_reference", handle_create_reference(Top, counters.rid, bid))
    /\ counters' = [counters EXCEPT !.rid = @ + 1]
    /\ UNCHANGED <<resource_defs, vaults, components, storages>>

DropReference(rid) ==
    /\ InGuest
    /\ Finish("drop_reference", handle_drop_reference(frames, rid))
    /\ UNCHANGED <<resource_defs, vaults, components, storages, counters>>

\* ------------------------------------------ handlers on the Runtime's maps
\* handle_create_resource_fixed
CreateResourceFixed(supply) ==
    /\ InGuest
    /\ counters.res <= MaxRes
    /\ counters.bid <= MaxBid
    /\ LET address == ResourceAddress(counters.res)
           resource == [minter |-> "None", supply |-> supply, auth |-> "None"]
       IN IF address \in DOMAIN resource_defs
          THEN /\ Trap("create_resource_fixed", Top, "ResourceAlreadyExists")
               /\ counters' = [counters EXCEPT !.res = @ + 1]
               /\ UNCHANGED resource_defs
          ELSE /\ resource_defs' = MapInsert(resource_defs, address, resource)
               /\ Return("create_resource_fixed",
                         [Top EXCEPT !.buckets = MapInsert(@, counters.bid, Bucket(supply, address))])
               /\ counters' = [counters EXCEPT !.res = @ + 1, !.bid = @ + 1]
    /\ UNCHANGED <<vaults, components, storages>>

\* Variant: the authority is the minter, also when the minter is a component.
CreateResourceMutable_minter(minter) ==
    /\ InGuest
    /\ counters.res <= MaxRes
    /\ LET address == ResourceAddress(counters.res)
       IN CASE minter[1] = "Package" \/ (minter[1] = "Component" /\ minter \in DOMAIN components) ->
                 LET resource == [minter |-> minter, supply |-> 0, auth |-> minter]
                 IN /\ counters' = [counters EXCEPT !.res = @ + 1]
                    /\ IF address \in DOMAIN resource_defs
                       THEN /\ Trap("create_resource_mutable", Top, "ResourceAlreadyExists")
                            /\ UNCHANGED resource_defs
                       ELSE /\ resource_defs' = MapInsert(resource_defs, address, resource)
                            /\ Return("create_resource_mutable", Top)
            [] minter[1] = "Component" /\ minter \notin DOMAIN components ->
                 /\ Trap("create_resource_mutable", Top, "ComponentNotFound")
                 /\ UNCHANGED <<resource_defs, counters>>
            [] OTHER ->
                 /\ Trap("create_resource_mutable", Top, "InvalidAddressType")
                 /\ UNCHANGED <<resource_defs, counters>>
    /\ UNCHANGED <<vaults, components, storages>>

\* handle_create_resource_mutable
CreateResourceMutable(minter) ==
    /\ InGuest
    /\ counters.res <= MaxRes
    /\ LET address == ResourceAddress(counters.res)
       IN CASE minter[1] = "Package" \/ (minter[1] = "Component" /\ minter \in DOMAIN components) ->
                 LET auth == IF minter[1] = "Package" THEN minter
                             ELSE components[minter].blueprint[1]
                     resource == [minter |-> minter, supply |-> 0, auth |-> auth]
                 IN /\ counters' = [counters EXCEPT !.res = @ + 1]
                    /\ IF address \in DOMAIN resource_defs
                       THEN /\ Trap("create_resource_mutable", Top, "ResourceAlreadyExists")
                            /\ UNCHANGED resource_defs
                       ELSE /\ resource_defs' = MapInsert(resource_defs, address, resource)
                            /\ Return("create_resource_mutable", Top)
            [] minter[1] = "Component" /\ minter \notin DOMAIN components ->
                 /\ Trap("create_resource_mutable", Top, "ComponentNotFound")
                 /\ UNCHANGED <<resource_defs, counters>>
            [] OTHER ->
                 /\ Trap("create_resource_mutable", Top, "InvalidAddressType")
                 /\ UNCHANGED <<resource_defs, counters>>
    /\ UNCHANGED <<vaults, components, storages>>

\* Variant: any package may mint a mutable resource.
handle_mint_resource_no_auth(self, defs, new_bid, resource, amount) ==
    IF resource \notin DOMAIN defs
    THEN [result |-> "ResourceNotFound", self |-> self, resource_defs |-> defs]
    ELSE IF defs[resource].auth = "None"
    THEN [result |-> "UnableToMintFixedResource", self |-> self, resource_defs |-> defs]
    ELSE [result |-> "Ok",
          self |-> [self EXCEPT !.buckets = MapInsert(@, new_bid, Bucket(amount, resource))],
          resource_defs |-> [defs EXCEPT ![resource].supply = @ + amount]]

\* Variant: a resource without authority is minted like a mutable one.
handle_mint_resource_fixed(self, defs, new_bid, resource, amount) ==
    IF resource \notin DOMAIN defs
    THEN [result |-> "ResourceNotFound", self |-> self, resource_defs |-> defs]
    ELSE IF defs[resource].auth # "None" /\ self.package # defs[resource].auth
    THEN [result |-> "UnauthorizedToMint", self |-> self, resource_defs |-> defs]
    ELSE [result |-> "Ok",
          self |-> [self EXCEPT !.buckets = MapInsert(@, new_bid, Bucket(amount, resource))],
          resource_defs |-> [defs EXCEPT ![resource].supply = @ + amount]]

\* Variant: the bucket is made without adding to the recorded supply.
handle_mint_resource_no_supply(self, defs, new_bid, resource, amount) ==
    IF resource \notin DOMAIN defs
    THEN [result |-> "ResourceNotFound", self |-> self, resource_defs |-> defs]
    ELSE IF defs[resource].auth = "None"
    THEN [result |-> "UnableToMintFixedResource", self |-> self, resource_defs |-> defs]
    ELSE IF self.package # defs[resource].auth
    THEN [result |-> "UnauthorizedToMint", self |-> self, resource_defs |-> defs]
    ELSE [result |-> "Ok",
          self |-> [self EXCEPT !.buckets = MapInsert(@, new_bid, Bucket(amount, resource))],
          resource_defs |-> defs]

\* handle_mint_resource
handle_mint_resource(self, defs, new_bid, resource, amount) ==
    IF resource \notin DOMAIN defs
    THEN [result |-> "ResourceNotFound", self |-> self, resource_defs |-> defs]
    ELSE IF defs[resource].auth = "None"
    THEN [result |-> "UnableToMintFixedResource", self |-> self, resource_defs |-> defs]
    ELSE IF self.package # defs[resource].auth
    THEN [result |-> "UnauthorizedToMint", self |-> self, resource_defs |-> defs]
    ELSE [result |-> "Ok",
          self |-> [self EXCEPT !.buckets = MapInsert(@, new_bid, Bucket(amount, resource))],
          resource_defs |-> [defs EXCEPT ![resource].supply = @ + amount]]

MintResource(resource, amount) ==
    /\ InGuest
    /\ counters.bid <= MaxBid
    /\ resource \in DOMAIN resource_defs => resource_defs[resource].supply + amount <= MaxAmount
    /\ LET r == handle_mint_resource(Top, resource_defs, counters.bid, resource, amount)
       IN /\ Finish("mint_resource", r)
          /\ resource_defs' = r.resource_defs
          /\ counters' = IF r.result = "Ok" THEN [counters EXCEPT !.bid = @ + 1] ELSE counters
    /\ UNCHANGED <<vaults, components, storages>>

\* handle_create_vault
CreateVault(resource) ==
    /\ InGuest
    /\ counters.vid <= MaxVault
    /\ vaults' = MapInsert(vaults, counters.vid, Vault(Bucket(0, resource), Top.package))
    /\ counters' = [counters EXCEPT !.vid = @ + 1]
    /\ Return("create_vault", Top)
    /\ UNCHANGED <<resource_defs, components, storages>>

\* handle_put_into_vault: the bucket leaves the owned set before the vault
\* is looked up.
handle_put_into_vault(self, vs, bucket, vault) ==
    IF bucket \notin DOMAIN self.buckets
    THEN [result |-> "BucketNotFound", self |-> self, vaults |-> vs]
    ELSE LET self1 == [self EXCEPT !.buckets = MapRemove(@, bucket)]
         IN IF vault \notin DOMAIN vs
            THEN [result |-> "VaultNotFound", self |-> self1, vaults |-> vs]
            ELSE LET r == VaultPut(vs[vault], self.buckets[bucket], self.package)
                 IN IF r.result # "Ok"
                    THEN [result |-> r.result, self |-> self1, vaults |-> vs]
                    ELSE [result |-> "Ok", self |-> self1,
                          vaults |-> [vs EXCEPT ![vault] = r.vault]]

PutIntoVault(bucket, vault) ==
    /\ InGuest
    /\ LET r == handle_put_into_vault(Top, vaults, bucket, vault)
       IN /\ Finish("put_into_vault", r)
          /\ vaults' = r.vaults
    /\ UNCHANGED <<resource_defs, components, storages, counters>>

\* Variant: what Vault::take leaves behind is not checked for an error; the
\* vault is written back and the bucket handed out whatever it returned.
handle_take_from_vault_unchecked(self, vs, new_bid, vault, amount) ==
    IF vault \notin DOMAIN vs
    THEN [result |-> "VaultNotFound", self |-> self, vaults |-> vs]
    ELSE LET r == VaultTake(vs[vault], amount, self.package)
         IN [result |-> "Ok",
             self |-> [self EXCEPT !.buckets = MapInsert(@, new_bid, r.taken)],
             vaults |-> [vs EXCEPT ![vault] = r.vault]]

\* Variant: Vault::take hands out the bucket and the vault keeps its balance.
handle_take_from_vault_keep(self, vs, new_bid, vault, amount) ==
    IF vault \notin DOMAIN vs
    THEN [result |-> "VaultNotFound", self |-> self, vaults |-> vs]
    ELSE LET r == VaultTake(vs[vault], amount, self.package)
         IN IF r.result # "Ok"
            THEN [result |-> r.result, self |-> self, vaults |-> vs]
            ELSE [result |-> "Ok",
                  self |-> [self EXCEPT !.buckets = MapInsert(@, new_bid, r.taken)],
                  vaults |-> vs]

\* handle_take_from_vault
handle_take_from_vault(self, vs, new_bid, vault, amount) ==
    IF vault \notin DOMAIN vs
    THEN [result |-> "VaultNotFound", self |-> self, vaults |-> vs]
    ELSE LET r == VaultTake(vs[vault], amount, self.package)
         IN IF r.result # "Ok"
            THEN [result |-> r.result, self |-> self, vaults |-> vs]
            ELSE [result |-> "Ok",
                  self |-> [self EXCEPT !.buckets = MapInsert(@, new_bid, r.taken)],
                  vaults |-> [vs EXCEPT ![vault] = r.vault]]

TakeFromVault(vault, amount) ==
    /\ InGuest
    /\ counters.bid <= MaxBid
    /\ LET r == handle_take_from_vault(Top, vaults, counters.bid, vault, amount)
       IN /\ Finish("take_from_vault", r)
          /\ vaults' = r.vaults
          /\ counters' = IF r.result = "Ok" THEN [counters EXCEPT !.bid = @ + 1] ELSE counters
    /\ UNCHANGED <<resource_defs, components, storages>>

\* ----------------------------------------------------- calls and returns
\* Process::prepare_call_function
prepare_call_function(blueprint, function, args) ==
    [package |-> blueprint[1], export |-> <<blueprint[2], "main">>,
     function |-> function, args |-> args]

\* Process::prepare_call_method: the component address is prepended to the
\* arguments.
prepare_call_method(com, component, method, args) ==
    prepare_call_function(com.blueprint, method,
                          <<Custom(SCRYPTO_TYPE_ADDRESS, component)>> \o args)

\* Variant: a frame spawned by a guest keeps the package of its caller.
call_caller_package(op, invocation) ==
    LET w == process_args(Top, invocation.args)
    IN IF w.result # "Ok" THEN Trap(op, w.self, w.result)
       ELSE LET t == take_moving_buckets_and_refs(w.self)
                process == put_buckets_and_refs(NewProcess, t.buckets, t.references)
                started == [process EXCEPT !.depth = Top.depth + 1,
                                           !.package =
                               IF InGuest THEN Top.package ELSE invocation.package]
            IN IF invocation.package \notin DOMAIN packages
               THEN Trap(op, t.self, "PackageNotFound")
               ELSE IF invocation.export[1] \notin Blueprints
               THEN Trap(op, t.self, "InvokeError")
               ELSE /\ frames' = Append(SetTop(t.self), started)
                    /\ status' = "running"
                    /\ last' = Outcome(op, "Ok")
                    /\ UNCHANGED <<ledger, logs, packages>>

\* Process::call up to the point where the child's export is running, with
\* the head of Process::run (module load, vm set, export lookup).
call(op, invocation) ==
    LET w == process_args(Top, invocation.args)
    IN IF w.result # "Ok" THEN Trap(op, w.self, w.result)
       ELSE LET t == take_moving_buckets_and_refs(w.self)
                process == put_buckets_and_refs(NewProcess, t.buckets, t.references)
                started == [process EXCEPT !.depth = Top.depth + 1,
                                           !.package = invocation.package]
            IN IF invocation.package \notin DOMAIN packages
               THEN Trap(op, t.self, "PackageNotFound")
               ELSE IF invocation.export[1] \notin Blueprints
               THEN Trap(op, t.self, "InvokeError")
               ELSE /\ frames' = Append(SetTop(t.self), started)
                    /\ status' = "running"
                    /\ last' = Outcome(op, "Ok")
                    /\ UNCHANGED <<ledger, logs, packages>>

\* handle_call_function (guest) and Process::call_function (root driver)
CallFunction(blueprint, args) ==
    /\ Running
    /\ Len(frames) < MaxDepth
    /\ call("call", prepare_call_function(blueprint, "f", args))
    /\ UNCHANGED <<resource_defs, vaults, components, storages, counters>>

\* handle_call_method (guest) and Process::call_method (root driver)
CallMethod(component, args) ==
    /\ Running
    /\ Len(frames) < MaxDepth
    /\ IF component \notin DOMAIN components
       THEN Trap("call_method", Top, "ComponentNotFound")
       ELSE call("call", prepare_call_method(components[component], component, "m", args))
    /\ UNCHANGED <<resource_defs, vaults, components, storages, counters>>

\* Variant: Process::call does not finalize the child before taking its
\* moving sets.
ReturnFromRun_no_finalize(rtn, data) ==
    /\ InGuest
    /\ LET n == Len(frames)
       IN IF rtn = "none" THEN Trap("return", Top, "NoReturnValue")
          ELSE IF rtn = "wrong" THEN Trap("return", Top, "InvalidReturnType")
          ELSE LET w == process_data(Top, data, "move")
               IN IF w.result # "Ok" THEN Trap("return", w.self, w.result)
                  ELSE LET t == take_moving_buckets_and_refs(w.self)
                           parent == put_buckets_and_refs(frames[n - 1], t.buckets, t.references)
                           fs == [frames EXCEPT ![n - 1] = parent, ![n] = t.self]
                           scanned == unlock_scan(parent, fs)
                       IN /\ frames' = [SubSeq(frames, 1, n - 1) EXCEPT ![n - 1] = scanned]
                          /\ status' = "running"
                          /\ last' = [Outcome("return", "Ok") EXCEPT
                                        !.unlocked = DOMAIN parent.locked_buckets
                                                     \ DOMAIN scanned.locked_buckets]
                          /\ UNCHANGED <<ledger, logs, packages>>
    /\ UNCHANGED <<resource_defs, vaults, components, storages, counters>>

\* Variant: the moving sets of the callee are drained but not put into the
\* caller.
ReturnFromRun_drop(rtn, data) ==
    /\ InGuest
    /\ LET n == Len(frames)
       IN IF rtn = "none" THEN Trap("return", Top, "NoReturnValue")
          ELSE IF rtn = "wrong" THEN Trap("return", Top, "InvalidReturnType")
          ELSE LET w == process_data(Top, data, "move")
               IN IF w.result # "Ok" THEN Trap("return", w.self, w.result)
                  ELSE IF finalize(w.self) # "Ok"
                  THEN Trap("return", w.self, finalize(w.self))
                  ELSE LET t == take_moving_buckets_and_refs(w.self)
                           parent == frames[n - 1]
                           fs == [frames EXCEPT ![n - 1] = parent, ![n] = t.self]
                           scanned == unlock_scan(parent, fs)
                       IN /\ frames' = [SubSeq(frames, 1, n - 1) EXCEPT ![n - 1] = scanned]
                          /\ status' = "running"
                          /\ last' = [Outcome("return", "Ok") EXCEPT
                                        !.unlocked = DOMAIN parent.locked_buckets
                                                     \ DOMAIN scanned.locked_buckets]
                          /\ UNCHANGED <<ledger, logs, packages>>
    /\ UNCHANGED <<resource_defs, vaults, components, storages, counters>>

\* The export of the executing frame returns: the tail of Process::run (the
\* walk of the return data) followed by the tail of the caller's
\* Process::call (finalize, hand the moving sets back, scan the locks).
ReturnFromRun(rtn, data) ==
    /\ InGuest
    /\ LET n == Len(frames)
       IN IF rtn = "none" THEN Trap("return", Top, "NoReturnValue")
          ELSE IF rtn = "wrong" THEN Trap("return", Top, "InvalidReturnType")
          ELSE LET w == process_data(Top, data, "move")
               IN IF w.result # "Ok" THEN Trap("return", w.self, w.result)
                  ELSE IF finalize(w.self) # "Ok"
                  THEN Trap("return", w.self, finalize(w.self))
                  ELSE LET t == take_moving_buckets_and_refs(w.self)
                           parent == put_buckets_and_refs(frames[n - 1], t.buckets, t.references)
                           fs == [frames EXCEPT ![n - 1] = parent, ![n] = t.self]
                           scanned == unlock_scan(parent, fs)
                       IN /\ frames' = [SubSeq(frames, 1, n - 1) EXCEPT ![n - 1] = scanned]
                          /\ status' = "running"
                          /\ last' = [Outcome("return", "Ok") EXCEPT
                                        !.unlocked = DOMAIN parent.locked_buckets
                                                     \ DOMAIN scanned.locked_buckets]
                          /\ UNCHANGED <<ledger, logs, packages>>
    /\ UNCHANGED <<resource_defs, vaults, components, storages, counters>>

\* Variant: the Runtime's view is written back whatever the root's finalize
\* returned.
Finalize_flush_always ==
    /\ Running
    /\ Len(frames) = 1
    /\ status' = IF finalize(frames[1]) = "Ok" THEN "committed" ELSE "failed"
    /\ last' = Outcome("finalize", finalize(frames[1]))
    /\ ledger' = RuntimeView
    /\ UNCHANGED <<frames, resource_defs, vaults, components, storages, counters, logs,
                   packages>>

\* Process::finalize called by the root driver after its top-level calls;
\* when it succeeds the driver commits: the Runtime's view is written back
\* to the ledger.
Finalize ==
    /\ Running
    /\ Len(frames) = 1
    /\ status' = IF finalize(frames[1]) = "Ok" THEN "committed" ELSE "failed"
    /\ last' = Outcome("finalize", finalize(frames[1]))
    /\ ledger' = IF finalize(frames[1]) = "Ok" THEN RuntimeView ELSE ledger
    /\ UNCHANGED <<frames, resource_defs, vaults, components, storages, counters, logs,
                   packages>>

Next ==
    \/ \E resource \in Resources : CreateBucket(resource)
    \/ \E bucket \in Bids, other \in Bids : PutIntoBucket(bucket, other)
    \/ \E bucket \in Bids, amount \in Amounts : TakeFromBucket(bucket, amount)
    \/ \E bid \in Bids : CreateReference(bid)
    \/ \E rid \in Rids : DropReference(rid)
    \/ \E supply \in Amounts : CreateResourceFixed(supply)
    \/ \E minter \in Minters : CreateResourceMutable(minter)
    \/ \E resource \in Resources, amount \in Amounts : MintResource(resource, amount)
    \/ \E resource \in Resources : CreateVault(resource)
    \/ \E bucket \in Bids, vault \in Vids : PutIntoVault(bucket, vault)
    \/ \E vault \in Vids, amount \in Amounts : TakeFromVault(vault, amount)
    \/ \E c \in Calls : CallFunction(c[1], c[2])
    \/ \E c \in MethodCalls : CallMethod(c[1], c[2])
    \/ \E r \in Returns : ReturnFromRun(r[1], r[2])
    \/ Finalize

Spec == Init /\ [][Next]_vars

\* ------------------------------------- handlers on components and storage
\* handle_create_component; address is the fresh component address.
handle_create_component(self, comps, address, name, state) ==
    IF address \in DOMAIN comps
    THEN [result |-> "ComponentAlreadyExists", self |-> self, components |-> comps]
    ELSE LET w == process_data(self, state, "reject")
         IN IF w.result # "Ok"
            THEN [result |-> w.result, self |-> w.self, components |-> comps]
            ELSE [result |-> "Ok", self |-> w.self,
                  components |-> MapInsert(comps, address,
                                           Component(<<self.package, name>>, w.value))]

\* handle_get_component_info
handle_get_component_info(self, comps, component) ==
    IF component \notin DOMAIN comps
    THEN [result |-> "ComponentNotFound", self |-> self]
    ELSE IF self.package # comps[component].blueprint[1]
    THEN [result |-> "UnauthorizedAccess", self |-> self]
    ELSE [result |-> "Ok", self |-> self, value |-> comps[component].blueprint]

\* Variant: the state is handed to a frame of any package.
handle_get_component_state_no_auth(self, comps, component) ==
    IF component \notin DOMAIN comps
    THEN [result |-> "ComponentNotFound", self |-> self]
    ELSE [result |-> "Ok", self |-> self, value |-> comps[component].state]

\* handle_get_component_state
handle_get_component_state(self, comps, component) ==
    IF component \notin DOMAIN comps
    THEN [result |-> "ComponentNotFound", self |-> self]
    ELSE IF self.package # comps[component].blueprint[1]
    THEN [result |-> "UnauthorizedAccess", self |-> self]
    ELSE [result |-> "Ok", self |-> self, value |-> comps[component].state]

\* Variant: the blueprint's package is not compared with the caller's.
handle_put_component_state_no_auth(self, comps, component, state) ==
    LET w == process_data(self, state, "reject")
    IN IF w.result # "Ok"
       THEN [result |-> w.result, self |-> w.self, components |-> comps]
       ELSE IF component \notin DOMAIN comps
       THEN [result |-> "ComponentNotFound", self |-> w.self, components |-> comps]
       ELSE [result |-> "Ok", self |-> w.self,
             components |-> [comps EXCEPT ![component].state = w.value]]

\* handle_put_component_state: the state is walked before the component is
\* looked up.
handle_put_component_state(self, comps, component, state) ==
    LET w == process_data(self, state, "reject")
    IN IF w.result # "Ok"
       THEN [result |-> w.result, self |-> w.self, components |-> comps]
       ELSE IF component \notin DOMAIN comps
       THEN [result |-> "ComponentNotFound", self |-> w.self, components |-> comps]
       ELSE IF self.package # comps[component].blueprint[1]
       THEN [result |-> "UnauthorizedAccess", self |-> w.self, components |-> comps]
       ELSE [result |-> "Ok", self |-> w.self,
             components |-> [comps EXCEPT ![component].state = w.value]]

\* handle_create_storage; sid is the fresh storage id.
handle_create_storage(self, sts, sid) ==
    [result |-> "Ok", self |-> self, storages |-> MapInsert(sts, sid, Storage(self.package))]

\* handle_get_storage_entry
handle_get_storage_entry(self, sts, storage, key) ==
    IF storage \notin DOMAIN sts
    THEN [result |-> "StorageNotFound", self |-> self]
    ELSE IF self.package # sts[storage].auth
    THEN [result |-> "UnauthorizedAccess", self |-> self]
    ELSE [result |-> "Ok", self |-> self, value |-> StorageGetEntry(sts[storage], key)]

\* handle_put_storage_entry: key and value are walked, in this order, before
\* the storage is looked up.
handle_put_storage_entry(self, sts, storage, key, value) ==
    LET wk == process_data(self, key, "reject")
    IN IF wk.result # "Ok"
       THEN [result |-> wk.result, self |-> wk.self, storages |-> sts]
       ELSE LET wv == process_data(wk.self, value, "reject")
            IN IF wv.result # "Ok"
               THEN [result |-> wv.result, self |-> wv.self, storages |-> sts]
               ELSE IF storage \notin DOMAIN sts
               THEN [result |-> "StorageNotFound", self |-> wv.self, storages |-> sts]
               ELSE IF self.package # sts[storage].auth
               THEN [result |-> "UnauthorizedAccess", self |-> wv.self, storages |-> sts]
               ELSE [result |-> "Ok", self |-> wv.self,
                     storages |-> [sts EXCEPT ![storage] =
                                      StorageSetEntry(@, wk.value, wv.value)]]

CreateComponent(name, state) ==
    /\ InGuest
    /\ counters.com <= MaxComp
    /\ LET r == handle_create_component(Top, components, ComponentAddress(counters.com),
                                        name, state)
       IN /\ Finish("create_component", r)
          /\ components' = r.components
    /\ counters' = [counters EXCEPT !.com = @ + 1]
    /\ UNCHANGED <<resource_defs, vaults, storages>>

GetComponentInfo(component) ==
    /\ InGuest
    /\ Finish("get_component_info", handle_get_component_info(Top, components, component))
    /\ UNCHANGED <<resource_defs, vaults, components, storages, counters>>

GetComponentState(component) ==
    /\ InGuest
    /\ Finish("get_component_state", handle_get_component_state(Top, components, component))
    /\ UNCHANGED <<resource_defs, vaults, components, storages, counters>>

PutComponentState(component, state) ==
    /\ InGuest
    /\ LET r == handle_put_component_state(Top, components, component, state)
       IN /\ Finish("put_component_state", r)
          /\ components' = r.components
    /\ UNCHANGED <<resource_defs, vaults, storages, counters>>

CreateStorage ==
    /\ InGuest
    /\ counters.sid <= MaxSid
    /\ LET r == handle_create_storage(Top, storages, counters.sid)
       IN /\ Finish("create_storage", r)
          /\ storages' = r.storages
    /\ counters' = [counters EXCEPT !.sid = @ + 1]
    /\ UNCHANGED <<resource_defs, vaults, components>>

GetStorageEntry(storage, key) ==
    /\ InGuest
    /\ Finish("get_storage_entry", handle_get_storage_entry(Top, storages, storage, key))
    /\ UNCHANGED <<resource_defs, vaults, components, storages, counters>>

PutStorageEntry(storage, key, value) ==
    /\ InGuest
    /\ LET r == handle_put_storage_entry(Top, storages, storage, key, value)
       IN /\ Finish("put_storage_entry", r)
          /\ storages' = r.storages
    /\ UNCHANGED <<resource_defs, vaults, components, counters>>

\* ------------------------------------------- two packages on one ledger
\* A payload without handles.
Plain == Custom(SCRYPTO_TYPE_ADDRESS, PackageAddress(1))

\* Payloads with a reference or a bucket leaf below other values.
NestedRid == Composite("Vec", <<Composite("Option", <<RidLeaf(1)>>)>>)

NestedBid == Composite("Struct", <<Unit, MapValue("HashMap", << <<Plain, BidLeaf(2)>> >>)>>)

\* States a guest may give a component.
States == {Unit, Plain, NestedRid, NestedBid}

\* Keys and values a guest may name in a storage map.
Keys == {Unit, Plain}

Entries == {<<Unit, Plain>>, <<Unit, Unit>>, <<BidLeaf(1), Unit>>, <<Unit, NestedRid>>}

\* Blueprints of both packages, called without arguments.
LedgerCalls == {<<<<pkg, "Bp">>, << >>>> : pkg \in Packages}

Components == {ComponentAddress(c) : c \in 1..MaxComp}

Sids == 1..MaxSid

\* Guests of two packages work on components, storage maps, vaults and a
\* mutable resource of one ledger; every export returns unit.
LedgerNext ==
    \/ \E c \in LedgerCalls : CallFunction(c[1], c[2])
    \/ \E component \in Components : CallMethod(component, << >>)
    \/ ReturnFromRun("ptr", Unit)
    \/ \E state \in States : CreateComponent("Bp", state)
    \/ \E component \in Components : GetComponentInfo(component)
    \/ \E component \in Components : GetComponentState(component)
    \/ \E component \in Components, state \in States : PutComponentState(component, state)
    \/ CreateStorage
    \/ \E storage \in Sids, key \in Keys : GetStorageEntry(storage, key)
    \/ \E storage \in Sids, e \in Entries : PutStorageEntry(storage, e[1], e[2])
    \/ CreateResourceMutable(ComponentAddress(1))
    \/ MintResource(ResourceAddress(1), MaxAmount)
    \/ CreateVault(ResourceAddress(1))
    \/ \E bucket \in Bids, vault \in Vids : PutIntoVault(bucket, vault)
    \/ \E vault \in Vids : TakeFromVault(vault, MaxAmount)

LedgerSpec == Init /\ [][LedgerNext]_vars

\* ------------------------------------------------- the Hello blueprint
\* Package 1 publishes the Hello blueprint; a blueprint of package 2 calls it.
HelloPackage == PackageAddress(1)

CallerPackage == PackageAddress(2)

\* The resource Hello::new creates and the component it instantiates: the
\* first resource and the first component made by the transaction.
HT == ResourceAddress(1)

HelloComponent == ComponentAddress(2)

\* The supplies Hello::new may be built with; the example has 1000.
Supplies == {0, 1, 2, 999, 1000}

\* struct Hello { vault: Vault }: the state holds the vault's id, a leaf
\* that is neither a bucket nor a reference handle.
HelloState(vid) == Composite("Struct", <<Custom(SCRYPTO_TYPE_U256, vid)>>)

VaultsOf(package) == {v \in DOMAIN vaults : vaults[v].auth = package}

\* handle_create_vault, for a transaction that makes two vaults.
AirdropCreateVault(resource) ==
    /\ InGuest
    /\ counters.vid <= AirdropVaults
    /\ vaults' = MapInsert(vaults, counters.vid, Vault(Bucket(0, resource), Top.package))
    /\ counters' = [counters EXCEPT !.vid = @ + 1]
    /\ Return("create_vault", Top)
    /\ UNCHANGED <<resource_defs, components, storages>>

\* The root driver: it instantiates Hello itself or leaves that to the
\* caller's blueprint, calls the caller's blueprint, and finalizes once the
\* caller has returned.
AirdropRoot ==
    /\ Len(frames) = 1
    /\ \/ /\ last.op = "start_process"
          /\ \E package \in Packages : CallFunction(<<package, "Bp">>, << >>)
       \/ /\ last.op = "return"
          /\ VaultsOf(CallerPackage) = {}
          /\ CallFunction(<<CallerPackage, "Bp">>, << >>)
       \/ /\ last.op = "return"
          /\ VaultsOf(CallerPackage) # {}
          /\ Finalize

\* Hello::new: create_fixed(supply), Vault::wrap(bucket) (an empty vault,
\* then put), instantiate, return the component's address.
HelloNew ==
    /\ InGuest
    /\ Top.package = HelloPackage
    /\ \/ /\ last.op = "call"
          /\ HelloComponent \notin DOMAIN components
          /\ \E supply \in Supplies : CreateResourceFixed(supply)
       \/ /\ last.op = "create_resource_fixed"
          /\ AirdropCreateVault(HT)
       \/ /\ last.op = "create_vault"
          /\ PutIntoVault(counters.bid - 1, counters.vid - 1)
       \/ /\ last.op = "put_into_vault"
          /\ CreateComponent("Bp", HelloState(counters.vid - 1))
       \/ /\ last.op = "create_component"
          /\ ReturnFromRun("ptr", Custom(SCRYPTO_TYPE_ADDRESS, HelloComponent))

\* Hello::airdrop(&mut self): the component's state is read, self.vault
\* gives 1 unit, the state is written back and the bucket is returned.
HelloAirdrop ==
    /\ InGuest
    /\ Top.package = HelloPackage
    /\ HelloComponent \in DOMAIN components
    /\ \/ /\ last.op = "call"
          /\ GetComponentState(HelloComponent)
       \/ /\ last.op = "get_component_state"
          /\ TakeFromVault(components[HelloComponent].state.values[1].data, 1)
       \/ /\ last.op = "take_from_vault"
          /\ PutComponentState(HelloComponent, components[HelloComponent].state)
       \/ /\ last.op = "put_component_state"
          /\ ReturnFromRun("ptr", BidLeaf(counters.bid - 1))

\* The caller's blueprint: it instantiates Hello unless the root did, calls
\* airdrop once, makes its own vault before or after that call, deposits the
\* bucket it got and returns.
AirdropCaller ==
    /\ Len(frames) = 2
    /\ Top.package = CallerPackage
    /\ \/ /\ last.op = "call"
          /\ HelloComponent \notin DOMAIN components
          /\ CallFunction(<<HelloPackage, "Bp">>, << >>)
       \/ /\ HelloComponent \in DOMAIN components
          /\ counters.bid = 2
          /\ CallMethod(HelloComponent, << >>)
       \/ /\ HT \in DOMAIN resource_defs
          /\ VaultsOf(CallerPackage) = {}
          /\ AirdropCreateVault(HT)
       \/ /\ VaultsOf(CallerPackage) # {}
          /\ \E bucket \in DOMAIN Top.buckets, vault \in VaultsOf(CallerPackage) :
                PutIntoVault(bucket, vault)
       \/ /\ last.op = "put_into_vault"
          /\ ReturnFromRun("ptr", Unit)

AirdropNext ==
    \/ AirdropRoot
    \/ HelloNew
    \/ HelloAirdrop
    \/ AirdropCaller

AirdropSpec == Init /\ [][AirdropNext]_vars

\* ------------------------------------------------ every kind of new id
\* One transaction in which guests of package 1 make buckets, references,
\* vaults, storage maps, components and a resource, call each other and
\* return.
ReplayNext ==
    \/ CallFunction(<<HelloPackage, "Bp">>, << >>)
    \/ ReturnFromRun("ptr", Unit)
    \/ CreateBucket(HT)
    \/ \E bid \in Bids : CreateReference(bid)
    \/ \E rid \in Rids : DropReference(rid)
    \/ CreateResourceFixed(MaxAmount)
    \/ \E bucket \in Bids : TakeFromBucket(bucket, MaxAmount)
    \/ CreateVault(HT)
    \/ \E bucket \in Bids : PutIntoVault(bucket, 1)
    \/ CreateStorage
    \/ CreateComponent("Bp", Unit)
    \/ Finalize

ReplaySpec == Init /\ [][ReplayNext]_vars

\* ---------------------------------------------------------------- queries
\* Variant: only the owned buckets are looked up.
handle_get_bucket_amount_owned(self, bid) ==
    IF bid \in DOMAIN self.buckets THEN OkWith(self, self.buckets[bid].amount)
    ELSE Err(self, "BucketNotFound")

\* handle_get_bucket_amount: owned buckets first, then locked ones.
handle_get_bucket_amount(self, bid) ==
    IF bid \in DOMAIN self.buckets THEN OkWith(self, self.buckets[bid].amount)
    ELSE IF bid \in DOMAIN self.locked_buckets
    THEN OkWith(self, self.locked_buckets[bid].bucket.amount)
    ELSE Err(self, "BucketNotFound")

\* handle_get_bucket_resource
handle_get_bucket_resource(self, bid) ==
    IF bid \in DOMAIN self.buckets THEN OkWith(self, self.buckets[bid].resource)
    ELSE IF bid \in DOMAIN self.locked_buckets
    THEN OkWith(self, self.locked_buckets[bid].bucket.resource)
    ELSE Err(self, "BucketNotFound")

\* handle_get_ref_amount
handle_get_ref_amount(self, rid) ==
    IF rid \notin DOMAIN self.references THEN Err(self, "ReferenceNotFound")
    ELSE OkWith(self, self.references[rid].bucket.amount)

\* handle_get_ref_resource
handle_get_ref_resource(self, rid) ==
    IF rid \notin DOMAIN self.references THEN Err(self, "ReferenceNotFound")
    ELSE OkWith(self, self.references[rid].bucket.resource)

\* Variant: the vault's authority is asked for, as for a withdrawal.
handle_get_vault_amount_authorized(self, vs, vault) ==
    IF vault \notin DOMAIN vs THEN Err(self, "VaultNotFound")
    ELSE IF vs[vault].auth # self.package THEN Err(self, "UnauthorizedAccess")
    ELSE OkWith(self, vs[vault].bucket.amount)

\* handle_get_vault_amount: no authority is asked for.
handle_get_vault_amount(self, vs, vault) ==
    IF vault \notin DOMAIN vs THEN Err(self, "VaultNotFound")
    ELSE OkWith(self, vs[vault].bucket.amount)

\* handle_get_vault_resource
handle_get_vault_resource(self, vs, vault) ==
    IF vault \notin DOMAIN vs THEN Err(self, "VaultNotFound")
    ELSE OkWith(self, vs[vault].bucket.resource)

\* handle_get_resource_info: minter and supply of the definition.
handle_get_resource_info(self, defs, resource) ==
    IF resource \notin DOMAIN defs THEN Err(self, "ResourceNotFound")
    ELSE OkWith(self, [minter |-> defs[resource].minter, supply |-> defs[resource].supply])

\* handle_get_package_address; Process::package fails without a vm.
handle_get_package_address(self) ==
    IF self.package = "None" THEN Err(self, "IllegalSystemCall")
    ELSE OkWith(self, self.package)

\* handle_get_call_data; Process::function and Process::args fail without
\* a vm.
handle_get_call_data(self) ==
    IF self.package = "None" THEN Err(self, "IllegalSystemCall") ELSE Ok(self)

\* handle_get_transaction_hash
handle_get_transaction_hash(self) == Ok(self)

\* The host calls that only read: the output goes to the guest.
GetBucketAmount(bid) ==
    /\ InGuest
    /\ Finish("get_bucket_amount", handle_get_bucket_amount(Top, bid))
    /\ UNCHANGED <<resource_defs, vaults, components, storages, counters>>

GetBucketResource(bid) ==
    /\ InGuest
    /\ Finish("get_bucket_resource", handle_get_bucket_resource(Top, bid))
    /\ UNCHANGED <<resource_defs, vaults, components, storages, counters>>

GetRefAmount(rid) ==
    /\ InGuest
    /\ Finish("get_ref_amount", handle_get_ref_amount(Top, rid))
    /\ UNCHANGED <<resource_defs, vaults, components, storages, counters>>

GetRefResource(rid) ==
    /\ InGuest
    /\ Finish("get_ref_resource", handle_get_ref_resource(Top, rid))
    /\ UNCHANGED <<resource_defs, vaults, components, storages, counters>>

GetVaultAmount(vault) ==
    /\ InGuest
    /\ Finish("get_vault_amount", handle_get_vault_amount(Top, vaults, vault))
    /\ UNCHANGED <<resource_defs, vaults, components, storages, counters>>

GetVaultResource(vault) ==
    /\ InGuest
    /\ Finish("get_vault_resource", handle_get_vault_resource(Top, vaults, vault))
    /\ UNCHANGED <<resource_defs, vaults, components, storages, counters>>

GetResourceInfo(resource) ==
    /\ InGuest
    /\ Finish("get_resource_info", handle_get_resource_info(Top, resource_defs, resource))
    /\ UNCHANGED <<resource_defs, vaults, components, storages, counters>>

GetPackageAddress ==
    /\ InGuest
    /\ Finish("get_package_address", handle_get_package_address(Top))
    /\ UNCHANGED <<resource_defs, vaults, components, storages, counters>>

GetCallData ==
    /\ InGuest
    /\ Finish("get_call_data", handle_get_call_data(Top))
    /\ UNCHANGED <<resource_defs, vaults, components, storages, counters>>

GetTransactionHash ==
    /\ InGuest
    /\ Finish("get_transaction_hash", handle_get_transaction_hash(Top))
    /\ UNCHANGED <<resource_defs, vaults, components, storages, counters>>

\* A reference handed to a callee, or nothing.
QueryCalls ==
    {<<<<package, "Bp">>, args>> :
        package \in Packages, args \in {<< >>, <<RidLeaf(1)>>}}

\* Guests of two packages make a resource, buckets, references and a vault,
\* hand a reference to a callee, and query what they see.
QueryNext ==
    \/ \E c \in QueryCalls : CallFunction(c[1], c[2])
    \/ ReturnFromRun("ptr", Unit)
    \/ CreateResourceFixed(MaxAmount)
    \/ CreateBucket(HT)
    \/ \E bid \in Bids : CreateReference(bid)
    \/ \E rid \in Rids : DropReference(rid)
    \/ CreateVault(HT)
    \/ \E bid \in Bids : GetBucketAmount(bid)
    \/ \E bid \in Bids : GetBucketResource(bid)
    \/ \E rid \in Rids : GetRefAmount(rid)
    \/ \E rid \in Rids : GetRefResource(rid)
    \/ \E vault \in Vids : GetVaultAmount(vault)
    \/ \E vault \in Vids : GetVaultResource(vault)
    \/ \E resource \in Resources : GetResourceInfo(resource)
    \/ GetPackageAddress
    \/ GetCallData
    \/ GetTransactionHash

QuerySpec == Init /\ [][QueryNext]_vars

\* --------------------------------------------------------- move_to_bucket
\* The loop of move_to_bucket over the candidates in ascending id order: each
\* candidate is removed from the owned buckets as it is visited.
RECURSIVE move_to_bucket_loop(_, _, _, _)
move_to_bucket_loop(buckets, candidates, needed, remainder) ==
    IF candidates = {} \/ needed = 0
    THEN [buckets |-> buckets, needed |-> needed, remainder |-> remainder]
    ELSE LET candidate == CHOOSE c \in candidates : \A d \in candidates : c <= d
             avail == buckets[candidate].amount
         IN IF avail > needed
            THEN move_to_bucket_loop(MapRemove(buckets, candidate), candidates \ {candidate},
                                     0, avail - needed)
            ELSE move_to_bucket_loop(MapRemove(buckets, candidate), candidates \ {candidate},
                                     needed - avail, remainder)

\* Variant: what is left of the last candidate is not put back.
move_to_bucket_no_remainder(self, new_bid, amount, resource, bid) ==
    LET candidates == {k \in DOMAIN self.buckets : self.buckets[k].resource = resource}
        w == move_to_bucket_loop(self.buckets, candidates, amount, 0)
    IN IF w.needed = 0
       THEN Ok([self EXCEPT !.buckets = MapInsert(w.buckets, bid, Bucket(amount, resource))])
       ELSE Err([self EXCEPT !.buckets = w.buckets], "InsufficientBalance")

\* Process::move_to_bucket; new_bid is the id create_bucket gets for the
\* remainder.
move_to_bucket(self, new_bid, amount, resource, bid) ==
    LET candidates == {k \in DOMAIN self.buckets : self.buckets[k].resource = resource}
        w == move_to_bucket_loop(self.buckets, candidates, amount, 0)
    IN IF w.needed = 0
       THEN Ok([self EXCEPT !.buckets =
                   MapInsert(MapInsert(w.buckets, new_bid, Bucket(w.remainder, resource)),
                             bid, Bucket(amount, resource))])
       ELSE Err([self EXCEPT !.buckets = w.buckets], "InsufficientBalance")

\* The resources the root process holds buckets of.
MoveResources == {ResourceAddress(1), ResourceAddress(2)}

MoveAmounts == 0..MoveAmount

\* The owned buckets of the root process after earlier calls handed it their
\* results: ids 1..k, each of either resource.
MoveBuckets ==
    UNION {[1..k -> {Bucket(amount, resource) :
                       amount \in MoveAmounts, resource \in MoveResources}] :
             k \in 0..MoveOwned}

\* The root process between two top-level operations, holding buckets.
MoveInit ==
    /\ \E buckets \in MoveBuckets :
          /\ frames = <<[NewProcess EXCEPT !.buckets = buckets]>>
          /\ resource_defs =
                [r \in MoveResources |->
                   [minter |-> "None",
                    supply |-> SumOver({b \in DOMAIN buckets : buckets[b].resource = r},
                                       [b \in DOMAIN buckets |-> buckets[b].amount]),
                    auth |-> "None"]]
          /\ counters = [bid |-> Len(buckets) + 1, rid |-> 1, vid |-> 1, sid |-> 1,
                         res |-> 3, com |-> 2, pkg |-> 3]
    /\ vaults = EmptyMap
    /\ components = LedgerComponents
    /\ storages = EmptyMap
    /\ status = "running"
    /\ last = Outcome("start_process", "Ok")
    /\ ledger = [resource_defs |-> EmptyMap, vaults |-> EmptyMap,
                 components |-> LedgerComponents, storages |-> EmptyMap,
                 packages |-> LedgerPackages]
    /\ logs = << >>
    /\ packages = LedgerPackages

\* Process::reserve_bucket_id, called by the root driver.
ReserveBucketId ==
    /\ Running
    /\ Len(frames) = 1
    /\ counters.bid <= MoveBids
    /\ counters' = [counters EXCEPT !.bid = @ + 1]
    /\ last' = Outcome("reserve_bucket_id", "Ok")
    /\ UNCHANGED <<frames, resource_defs, vaults, components, storages, status, ledger,
                   logs, packages>>

\* Process::move_to_bucket, called by the root driver with an id the Runtime
\* has handed out and the process does not own (the assertion at its head).
MoveToBucket(amount, resource, bid) ==
    /\ Running
    /\ Len(frames) = 1
    /\ bid < counters.bid
    /\ bid \notin DOMAIN Top.buckets
    /\ counters.bid <= MoveBids
    /\ LET r == move_to_bucket(Top, counters.bid, amount, resource, bid)
       IN /\ Finish("move_to_bucket", r)
          /\ counters' = IF r.result = "Ok" THEN [counters EXCEPT !.bid = @ + 1]
                         ELSE counters
    /\ UNCHANGED <<resource_defs, vaults, components, storages>>

MoveNext ==
    \/ ReserveBucketId
    \/ \E amount \in 0..(MoveAmount + 1), resource \in MoveResources, bid \in 1..MoveBids :
          MoveToBucket(amount, resource, bid)
    \/ Finalize

MoveSpec == MoveInit /\ [][MoveNext]_vars

\* -------------------------------------------------------------------- log
\* The Level a level number stands for.
Level(level) ==
    CASE level = 0 -> "Error"
      [] level = 1 -> "Warn"
      [] level = 2 -> "Info"
      [] level = 3 -> "Debug"
      [] level = 4 -> "Trace"

\* Runtime::add_log: the entry goes to the end of the transaction's log.
add_log(lg, level, message) == Append(lg, <<level, message>>)

\* Variant: a level above 4 is logged as Trace.
handle_emit_log_any_level(self, lg, level, message) ==
    [result |-> "Ok", self |-> self,
     logs |-> add_log(lg, IF level \in 0..4 THEN Level(level) ELSE "Trace", message)]

\* handle_emit_log
handle_emit_log(self, lg, level, message) ==
    IF level \in 0..4
    THEN [result |-> "Ok", self |-> self, logs |-> add_log(lg, Level(level), message)]
    ELSE [result |-> "InvalidLogLevel", self |-> self, logs |-> lg]

\* Level numbers a guest may pass: the five levels and one that is none.
Levels == 0..5

Messages == {"m1", "m2"}

EmitLog(level, message) ==
    /\ InGuest
    /\ Len(logs) < MaxLogs
    /\ LET r == handle_emit_log(Top, logs, level, message)
       IN IF r.result = "Ok"
          THEN /\ frames' = SetTop(r.self)
               /\ status' = "running"
               /\ last' = Outcome("emit_log", "Ok")
               /\ logs' = r.logs
               /\ UNCHANGED <<ledger, packages>>
          ELSE /\ Trap("emit_log", r.self, r.result)
               /\ r.logs = logs
    /\ UNCHANGED <<resource_defs, vaults, components, storages, counters>>

\* Guests of two packages call each other, log, return and fail.
LogNext ==
    \/ \E c \in QueryCalls : CallFunction(c[1], c[2])
    \/ \E r \in {<<"ptr", Unit>>, <<"none", Unit>>} : ReturnFromRun(r[1], r[2])
    \/ \E level \in Levels, message \in Messages : EmitLog(level, message)
    \/ Finalize

LogSpec == Init /\ [][LogNext]_vars

\* ---------------------------------------------------------------- publish
\* Code a publisher may hand in: two modules that validate and one that does
\* not.
Codes == {"code1", "code2", "bad"}

\* validate_module
validate_module(code) == IF code = "bad" THEN "WasmValidationError" ELSE "Ok"

\* Variant: the address is not looked up before the package is stored.
publish_at_overwrite(self, pk, code, address) ==
    IF validate_module(code) # "Ok"
    THEN [result |-> validate_module(code), self |-> self, packages |-> pk]
    ELSE [result |-> "Ok", self |-> self, packages |-> MapInsert(pk, address, code)]

\* Process::publish_at
publish_at(self, pk, code, address) ==
    IF address \in DOMAIN pk
    THEN [result |-> "PackageAlreadyExists", self |-> self, packages |-> pk]
    ELSE IF validate_module(code) # "Ok"
    THEN [result |-> validate_module(code), self |-> self, packages |-> pk]
    ELSE [result |-> "Ok", self |-> self, packages |-> MapInsert(pk, address, code)]

\* Process::publish: the address comes from Runtime::new_package_address.
publish(self, pk, code, new_address) == publish_at(self, pk, code, new_address)

\* Process::publish_at called by the root driver with an address it chose.
PublishAt(code, address) ==
    /\ Running
    /\ Len(frames) = 1
    /\ LET r == publish_at(Top, packages, code, address)
       IN IF r.result = "Ok"
          THEN /\ frames' = SetTop(r.self)
               /\ status' = "running"
               /\ last' = Outcome("publish_at", "Ok")
               /\ packages' = r.packages
               /\ UNCHANGED <<ledger, logs>>
          ELSE /\ Trap("publish_at", r.self, r.result)
               /\ r.packages = packages
    /\ UNCHANGED <<resource_defs, vaults, components, storages, counters>>

\* handle_publish (guest) and Process::publish (root driver)
Publish(code) ==
    /\ Running
    /\ counters.pkg <= MaxPkg
    /\ LET r == publish(Top, packages, code, PackageAddress(counters.pkg))
       IN IF r.result = "Ok"
          THEN /\ frames' = SetTop(r.self)
               /\ status' = "running"
               /\ last' = Outcome("publish", "Ok")
               /\ packages' = r.packages
               /\ UNCHANGED <<ledger, logs>>
          ELSE /\ Trap("publish", r.self, r.result)
               /\ r.packages = packages
    /\ counters' = [counters EXCEPT !.pkg = @ + 1]
    /\ UNCHANGED <<resource_defs, vaults, components, storages>>

\* Addresses the root driver may choose or call: the packages of the ledger,
\* those a transaction may publish and one more.
PackageAddresses == {PackageAddress(p) : p \in 1..(MaxPkg + 1)}

\* The root and guests publish packages and call functions of them.
PackageNext ==
    \/ \E code \in Codes : Publish(code)
    \/ \E code \in Codes, address \in PackageAddresses : PublishAt(code, address)
    \/ \E address \in PackageAddresses : CallFunction(<<address, "Bp">>, << >>)
    \/ ReturnFromRun("ptr", Unit)
    \/ Finalize

PackageSpec == Init /\ [][PackageNext]_vars

\* =================================================================== claims
\* ------------------------------------------------- totals and occurrences
BucketsTotal(m, r) ==
    SumOver({b \in DOMAIN m : m[b].resource = r}, [b \in DOMAIN m |-> m[b].amount])

LockedTotal(m, r) ==
    SumOver({b \in DOMAIN m : m[b].bucket.resource = r}, [b \in DOMAIN m |-> m[b].bucket.amount])

FrameTotal(f, r) ==
    BucketsTotal(f.buckets, r) + BucketsTotal(f.moving_buckets, r)
    + LockedTotal(f.locked_buckets, r)

VaultsTotal(r) ==
    SumOver({v \in DOMAIN vaults : vaults[v].bucket.resource = r},
            [v \in DOMAIN vaults |-> vaults[v].bucket.amount])

\* All units of resource r held by live frames and vaults.
Total(r) ==
    SumOver(DOMAIN frames, [i \in DOMAIN frames |-> FrameTotal(frames[i], r)]) + VaultsTotal(r)

\* The supply recorded in r's resource definition (0 when r has none).
Supply(r) == IF r \in DOMAIN resource_defs THEN resource_defs[r].supply ELSE 0

\* The places (frame, set) in which bucket id bid occurs.
BucketPlaces(bid) ==
    {<<i, "buckets">> : i \in {j \in DOMAIN frames : bid \in DOMAIN frames[j].buckets}}
    \cup {<<i, "locked_buckets">> : i \in {j \in DOMAIN frames : bid \in DOMAIN frames[j].locked_buckets}}
    \cup {<<i, "moving_buckets">> : i \in {j \in DOMAIN frames : bid \in DOMAIN frames[j].moving_buckets}}

\* The frames whose reference set holds rid.
RefHolders(rid) == {i \in DOMAIN frames : rid \in DOMAIN frames[i].references}

\* The reference ids held in the reference set of some live frame.
HeldRids == UNION {DOMAIN frames[i].references : i \in DOMAIN frames}

\* A host call (or a root-driver call) went through and execution goes on.
Succeeded(op) == status = "running" /\ last.op = op /\ last.result = "Ok"

\* C1: Conservation.  As long as no operation has failed, for every resource
\* address the balances over all owned, moving and locked buckets of all live
\* frames and over all vaults add up to the supply recorded in the resource
\* definition; a step changes that sum only when it is a successful
\* create_resource_fixed or mint_resource, and then by exactly the change of
\* the recorded supply.
C1_Conservation ==
    /\ [](status # "failed" => \A r \in Resources : Total(r) = Supply(r))
    /\ [][status' # "failed" =>
            \A r \in Resources :
               Total(r)' # Total(r) =>
                  /\ last'.op \in {"create_resource_fixed", "mint_resource"}
                  /\ Total(r)' - Total(r) = Supply(r)' - Supply(r)]_vars

\* Units minted in a guest frame have been split, parked in a vault and
\* handed back to the root process.
C1_Witness ==
    /\ Succeeded("return")
    /\ Len(frames) = 1
    /\ \E r \in Resources :
          /\ r \in DOMAIN resource_defs /\ resource_defs[r].auth # "None"
          /\ Supply(r) > 0
          /\ BucketsTotal(frames[1].buckets, r) = Supply(r)

\* C2: Unique bucket ownership.  Each bucket id occurs in at most one place
\* among the owned, locked and moving sets of all live frames.
C2_UniqueBucketOwnership ==
    \A bid \in 1..(counters.bid - 1) : Cardinality(BucketPlaces(bid)) <= 1

\* A bucket that a child handed back is owned by the root while another
\* bucket is locked in one guest frame and a third frame is running.
C2_Witness ==
    /\ status = "running"
    /\ Len(frames) = 3
    /\ DOMAIN frames[1].buckets # {}
    /\ DOMAIN frames[2].locked_buckets # {}

\* C3: Unique reference ownership.  While the transaction runs, every
\* reference id is in the reference set of exactly one live frame and in no
\* moving set; a call or a return neither loses nor duplicates a reference
\* (what the caller gives up the callee holds, and back), and any other step
\* changes the held references by at most the one it creates or drops.
C3_UniqueReferenceOwnership ==
    /\ [](status = "running" =>
            /\ \A rid \in HeldRids : Cardinality(RefHolders(rid)) = 1
            /\ \A i \in DOMAIN frames : DOMAIN frames[i].moving_references = {})
    /\ [][status' = "running" =>
            /\ Len(frames') # Len(frames) => HeldRids' = HeldRids
            /\ Len(frames') = Len(frames) + 1 =>
                 DOMAIN frames'[Len(frames')].references
                   = DOMAIN Top.references \ DOMAIN frames'[Len(frames)].references
            /\ Len(frames') = Len(frames) - 1 =>
                 DOMAIN frames'[Len(frames')].references
                   = DOMAIN Top.references \cup DOMAIN frames[Len(frames')].references
            /\ Len(frames') = Len(frames) =>
                 /\ HeldRids' \subseteq HeldRids \cup {counters.rid}
                 /\ Cardinality(HeldRids \ HeldRids') <= 1]_vars

\* A reference was passed as a call argument: the callee holds it, the
\* caller, which locked the bucket, no longer does.
C3_Witness ==
    /\ Succeeded("call")
    /\ Len(frames) = 3
    /\ \E rid \in DOMAIN frames[3].references :
          /\ frames[3].references[rid].bucket_id \in DOMAIN frames[2].locked_buckets
          /\ rid \notin DOMAIN frames[2].references

\* ---------------------------------------------------- locks and references
\* The frames whose locked set holds bucket id bid.
Lockers(bid) == {i \in DOMAIN frames : bid \in DOMAIN frames[i].locked_buckets}

\* The bucket ids locked by some live frame.
LockedBids == UNION {DOMAIN frames[i].locked_buckets : i \in DOMAIN frames}

\* C4 as stated: between host calls every bucket in the locked set of a live
\* frame has at least one outstanding reference held by a live frame, also
\* while a descendant that was passed the only reference is still running
\* after having dropped it.
C4_LockedHasReference ==
    status = "running" => \A bid \in LockedBids : RefCount(frames, bid) >= 1

\* C4 amended: between host calls every bucket in the locked set of a live
\* frame has at least one outstanding reference held by a live frame, unless
\* its locking frame is suspended in a nested call; the executing frame never
\* has a locked bucket without a reference.
C4_LockedHasReferenceOrSuspended ==
    status = "running" =>
       \A bid \in LockedBids :
          RefCount(frames, bid) >= 1 \/ \A i \in Lockers(bid) : i < Len(frames)

\* A frame passed the only reference to its locked bucket to a callee, the
\* callee dropped it and is still running: the bucket is locked in the
\* suspended caller and nobody holds a reference to it.
C4_Witness ==
    /\ Succeeded("drop_reference")
    /\ Len(frames) = 3
    /\ \E bid \in DOMAIN frames[2].locked_buckets : RefCount(frames, bid) = 0

\* The references frame i holds, in its reference set or its moving set.
RefsOf(i) ==
    {frames[i].references[rid] : rid \in DOMAIN frames[i].references}
    \cup {frames[i].moving_references[rid] : rid \in DOMAIN frames[i].moving_references}

\* C5: Borrow discipline.  In every reachable state each reference held by a
\* live frame refers to a bucket that is in the locked set of the holder or
\* of one of its ancestors in the call stack; and a frame never finishes
\* successfully (a guest frame returns to its caller, the root process
\* commits) while a reference to a bucket it locked is outstanding.
C5_BorrowDiscipline ==
    /\ [](\A i \in DOMAIN frames : \A ref \in RefsOf(i) :
             \E j \in 1..i :
                /\ ref.bucket_id \in DOMAIN frames[j].locked_buckets
                /\ frames[j].locked_buckets[ref.bucket_id] = ref)
    /\ [][(\/ status' = "running" /\ Len(frames') = Len(frames) - 1
           \/ status' = "committed" /\ status = "running") =>
             \A bid \in DOMAIN Top.locked_buckets :
                /\ RefCount(frames, bid) = 0
                /\ RefCount(frames', bid) = 0]_vars

\* A frame borrowed its bucket twice and passed one reference on: the
\* callee holds a reference to a bucket locked by its caller, which holds
\* the other.
C5_Witness ==
    /\ Succeeded("call")
    /\ Len(frames) = 3
    /\ \E bid \in DOMAIN frames[2].locked_buckets :
          /\ frames[2].locked_buckets[bid] \in RefsOf(2)
          /\ frames[2].locked_buckets[bid] \in RefsOf(3)

\* The reference ids the executing frame gives up in a step that leaves the
\* stack as deep as it was.
Dropped == DOMAIN Top.references \ DOMAIN frames'[Len(frames)].references

\* A drop_reference call of the executing frame went through.
DropStep == status' = "running" /\ last'.op = "drop_reference" /\ Len(frames') = Len(frames)

\* C6: when the frame that locked a bucket drops the last outstanding
\* reference to it with drop_reference, the bucket leaves that frame's locked
\* set and is in the same frame's owned set under the same bucket id with the
\* same amount and resource, and a take_from_bucket on it, of any amount up
\* to its balance, then succeeds.
C6_LastDropReverts ==
    [][DropStep =>
         \A rid \in Dropped :
            LET bid == Top.references[rid].bucket_id
                after == frames'[Len(frames)]
            IN (bid \in DOMAIN Top.locked_buckets /\ RefCount(frames, bid) = 1) =>
                  /\ bid \notin DOMAIN after.locked_buckets
                  /\ bid \in DOMAIN after.buckets
                  /\ after.buckets[bid] = Top.locked_buckets[bid].bucket
                  /\ \A amount \in 0..after.buckets[bid].amount :
                        handle_take_from_bucket(after, counters.bid, bid, amount).result = "Ok"]_vars

\* The first guest frame borrowed a bucket holding units once and has just
\* dropped the reference: the bucket is owned again, nothing is locked.
C6_Witness ==
    /\ Succeeded("drop_reference")
    /\ Len(frames) = 2
    /\ counters.rid = 2
    /\ DOMAIN frames[2].locked_buckets = {}
    /\ \E bid \in DOMAIN frames[2].buckets : frames[2].buckets[bid].amount > 0

\* A nested call returned successfully to its caller.
ReturnStep == status' = "running" /\ last'.op = "return" /\ Len(frames') = Len(frames) - 1

PayloadsMoving(bid) ==
    {data \in Payloads : Leaves(data) # << >> /\ Head(Leaves(data)) = <<SCRYPTO_TYPE_BID, bid>>}

\* The payloads that name bucket id bid in some leaf.
PayloadsNaming(bid) ==
    {data \in Payloads :
        \E k \in DOMAIN Leaves(data) : Leaves(data)[k] = <<SCRYPTO_TYPE_BID, bid>>}

\* C8: while at least one reference to a bucket is outstanding, every
\* operation of the executing frame that addresses the bucket by its id fails
\* with BucketNotFound: take_from_bucket, put_into_bucket with it as source
\* or as destination, put_into_vault, and the move walk of a call argument
\* or a return value whose first handle is the bucket (a walk that names it
\* after another handle fails as well, possibly on the earlier handle); and across any step after which a
\* reference is still outstanding the bucket is in the same frame's locked
\* set with the same amount and resource.
C8_LockedBucketUntouchable ==
    /\ [](status = "running" =>
            \A bid \in LockedBids :
               RefCount(frames, bid) >= 1 =>
                  /\ \A amount \in Amounts :
                        handle_take_from_bucket(Top, counters.bid, bid, amount).result
                          = "BucketNotFound"
                  /\ \A other \in Bids :
                        /\ handle_put_into_bucket(Top, other, bid).result = "BucketNotFound"
                        /\ handle_put_into_bucket(Top, bid, other).result = "BucketNotFound"
                  /\ \A vault \in Vids :
                        handle_put_into_vault(Top, vaults, bid, vault).result = "BucketNotFound"
                  /\ \A data \in PayloadsMoving(bid) :
                        /\ process_data(Top, data, "move").result = "BucketNotFound"
                        /\ process_args(Top, <<data>>).result = "BucketNotFound"
                  /\ \A data \in PayloadsNaming(bid) :
                        /\ process_data(Top, data, "move").result # "Ok"
                        /\ process_args(Top, <<data>>).result # "Ok")
    /\ [][status' = "running" =>
            \A bid \in LockedBids : \A i \in Lockers(bid) :
               (RefCount(frames, bid) >= 1 /\ i <= Len(frames') /\ RefCount(frames', bid) >= 1) =>
                  /\ bid \in DOMAIN frames'[i].locked_buckets
                  /\ frames'[i].locked_buckets[bid] = frames[i].locked_buckets[bid]
                  /\ \A j \in DOMAIN frames' :
                        bid \notin DOMAIN frames'[j].buckets \cup DOMAIN frames'[j].moving_buckets]_vars

\* The executing frame holds a reference to its locked bucket of one unit
\* and also owns a second bucket and a vault of the same resource, into
\* which the units could go if the bucket were not locked.
C8_Witness ==
    /\ status = "running"
    /\ \E bid \in DOMAIN Top.locked_buckets, other \in DOMAIN Top.buckets, vault \in DOMAIN vaults :
          /\ Top.locked_buckets[bid] \in RefsOf(Len(frames))
          /\ Top.locked_buckets[bid].bucket.amount > 0
          /\ Top.buckets[other].resource = Top.locked_buckets[bid].bucket.resource
          /\ vaults[vault].bucket.resource = Top.locked_buckets[bid].bucket.resource
          /\ vaults[vault].auth = Top.package

\* A create_reference call of the executing frame went through.
CreateStep ==
    status' = "running" /\ last'.op = "create_reference" /\ Len(frames') = Len(frames)

\* A borrow of a bucket that is already locked: the reference id is new, it
\* is held against the entry that was locked before, and neither the locked
\* set nor the owned set nor the references held before change.
ReBorrow ==
    CreateStep =>
       LET rid == counters.rid
           after == frames'[Len(frames)]
       IN after.references[rid].bucket_id \in DOMAIN Top.locked_buckets =>
             LET bid == after.references[rid].bucket_id
             IN /\ rid \notin HeldRids
                /\ DOMAIN after.references = DOMAIN Top.references \cup {rid}
                /\ \A r \in DOMAIN Top.references : after.references[r] = Top.references[r]
                /\ after.references[rid] = Top.locked_buckets[bid]
                /\ after.locked_buckets = Top.locked_buckets
                /\ after.buckets = Top.buckets
                /\ RefCount(frames', bid) = RefCount(frames, bid) + 1

\* The bucket bid is locked in frame i before and after the step, unchanged.
StaysLocked(i, bid) ==
    /\ bid \in DOMAIN frames'[i].locked_buckets
    /\ frames'[i].locked_buckets[bid] = frames[i].locked_buckets[bid]
    /\ bid \notin DOMAIN frames'[i].buckets

\* The bucket bid, locked in frame i before the step, is owned by frame i
\* after it with the same amount and resource.
Reverts(i, bid) ==
    /\ bid \notin DOMAIN frames'[i].locked_buckets
    /\ bid \in DOMAIN frames'[i].buckets
    /\ frames'[i].buckets[bid] = frames[i].locked_buckets[bid].bucket

\* C9 as stated: a borrow of an already locked bucket issues a new reference
\* id against the same locked bucket and creates no second locked entry;
\* a drop_reference that leaves a reference outstanding leaves the bucket
\* locked, whichever reference is dropped, and the drop_reference of the last
\* outstanding reference reverts the bucket to an owned bucket.
C9_DoubleBorrow ==
    [][/\ ReBorrow
       /\ DropStep =>
            \A rid \in Dropped :
               LET bid == Top.references[rid].bucket_id
               IN \A i \in Lockers(bid) :
                     IF RefCount(frames, bid) > 1 THEN StaysLocked(i, bid) ELSE Reverts(i, bid)]_vars

\* C9 amended: as C9, but the drop_reference of the last outstanding
\* reference reverts the bucket only when the locking frame executes it; when
\* a descendant of the locking frame executes it the bucket stays locked
\* (until the nested call returns to the locking frame).
C9_DoubleBorrowLockerDrops ==
    [][/\ ReBorrow
       /\ DropStep =>
            \A rid \in Dropped :
               LET bid == Top.references[rid].bucket_id
               IN \A i \in Lockers(bid) :
                     IF RefCount(frames, bid) > 1 \/ i < Len(frames)
                     THEN StaysLocked(i, bid)
                     ELSE Reverts(i, bid)]_vars

\* The first guest frame borrowed its only bucket twice and has just dropped
\* one of the two references: the other is held and the bucket is locked.
C9_Witness ==
    /\ Succeeded("drop_reference")
    /\ Len(frames) = 2
    /\ counters.bid = 2 /\ counters.rid = 3
    /\ Cardinality(DOMAIN frames[2].references) = 1
    /\ 1 \in DOMAIN frames[2].locked_buckets

\* Frame f holds nothing that counts as a leak: every owned bucket has zero
\* balance, nothing is locked and no reference is held.
LeakFree(f) ==
    /\ \A bid \in DOMAIN f.buckets : f.buckets[bid].amount = 0
    /\ DOMAIN f.locked_buckets = {}
    /\ DOMAIN f.references = {}

\* C10: Leak-freedom.  finalize of a frame returns Ok if and only if every
\* bucket in its owned set has zero balance, its locked set is empty and its
\* reference set is empty, and ResourceLeak otherwise; the root process
\* commits exactly in the first case; a guest frame that returns successfully
\* leaves nothing behind but zero-balance buckets, and one whose return fails
\* with ResourceLeak held a leak; the finalize of the root changes nothing but
\* the outcome.
C10_LeakFreedom ==
    /\ [](\A i \in DOMAIN frames :
             /\ finalize(frames[i]) \in {"Ok", "ResourceLeak"}
             /\ finalize(frames[i]) = "Ok" <=> LeakFree(frames[i]))
    /\ [](last.op = "finalize" =>
             /\ last.result = "Ok" <=> LeakFree(frames[1])
             /\ last.result # "Ok" => last.result = "ResourceLeak"
             /\ status = (IF LeakFree(frames[1]) THEN "committed" ELSE "failed"))
    /\ [][/\ (last'.op = "finalize" /\ last.op # "finalize") =>
               UNCHANGED <<frames, resource_defs, vaults, components, storages, counters>>
          /\ ReturnStep =>
               LET parent == frames'[Len(frames')]
               IN /\ DOMAIN Top.locked_buckets = {}
                  /\ DOMAIN Top.references \subseteq DOMAIN parent.references
                  /\ \A bid \in DOMAIN Top.buckets :
                        Top.buckets[bid].amount # 0 =>
                           bid \in DOMAIN parent.buckets /\ parent.buckets[bid] = Top.buckets[bid]
          /\ (Len(frames) >= 2 /\ last'.op = "return" /\ last'.result = "ResourceLeak") =>
               ~LeakFree(Top)]_vars

\* The root process was handed a zero-balance bucket by the call it made and
\* its finalize returned Ok: the transaction is committed.
C10_Witness ==
    /\ status = "committed"
    /\ last.op = "finalize" /\ last.result = "Ok"
    /\ DOMAIN frames[1].buckets # {}

\* ------------------------------------------------------ calls and returns
\* The return values that carry data.
DataReturns == {r \in Returns : r[1] = "ptr"}

\* C11: Leak detection across a call.  Whenever the export of a callee
\* returns data whose walk succeeds and the callee is then left with an owned
\* bucket of nonzero balance (received or made, and neither returned,
\* deposited nor merged away), a locked bucket, or a reference it neither
\* dropped nor returned, the return fails: the caller's call ends with
\* ResourceLeak, and it cannot end in any other way.
C11_LeakAcrossCall ==
    [][\A r \in DataReturns :
          LET w == process_data(Top, r[2], "move")
          IN (/\ InGuest /\ ReturnFromRun(r[1], r[2])
              /\ w.result = "Ok" /\ ~LeakFree(w.self)) =>
                /\ status' = "failed"
                /\ last'.op = "return" /\ last'.result = "ResourceLeak"]_vars

\* A callee was handed units and returned without them: the call failed
\* with ResourceLeak and the units are gone with the callee's frame.
C11_Witness ==
    /\ status = "failed"
    /\ last.op = "return" /\ last.result = "ResourceLeak"
    /\ \E r \in Resources : Supply(r) > 0 /\ Total(r) = 0

\* A call went through and its callee has started.
CallStep == status' = "running" /\ last'.op = "call" /\ Len(frames') = Len(frames) + 1

\* The frames that hold bucket id bid in their owned, locked or moving set
\* after the step.
HoldersAfter(bid) ==
    {i \in DOMAIN frames' :
        bid \in DOMAIN frames'[i].buckets \cup DOMAIN frames'[i].locked_buckets
                \cup DOMAIN frames'[i].moving_buckets}

\* C12: Cross-frame move.  A call hands each owned bucket named in its
\* arguments to the callee under the same id with the same amount and
\* resource, and the caller no longer holds it; when a callee that holds
\* nothing else of value returns such a bucket, the call succeeds (the
\* callee finalizes cleanly), the caller owns the bucket under the same id
\* with the same amount and resource, and no other frame holds it.
C12_CrossFrameMove ==
    /\ [][/\ \A bid \in Bids :
               (/\ InGuest /\ bid \in DOMAIN Top.buckets
                /\ LeakFree([Top EXCEPT !.buckets = MapRemove(@, bid)])
                /\ ReturnFromRun("ptr", BidLeaf(bid))) =>
                  /\ status' = "running"
                  /\ Len(frames') = Len(frames) - 1
                  /\ bid \in DOMAIN frames'[Len(frames')].buckets
                  /\ frames'[Len(frames')].buckets[bid] = Top.buckets[bid]
          /\ CallStep =>
               LET callee == frames'[Len(frames')]
                   caller == frames'[Len(frames)]
               IN /\ DOMAIN callee.buckets = DOMAIN Top.buckets \ DOMAIN caller.buckets
                  /\ \A bid \in DOMAIN callee.buckets :
                        /\ callee.buckets[bid] = Top.buckets[bid]
                        /\ HoldersAfter(bid) = {Len(frames')}
          /\ ReturnStep =>
               LET caller == frames'[Len(frames')]
               IN \A bid \in DOMAIN Top.buckets \cap DOMAIN caller.buckets :
                     /\ caller.buckets[bid] = Top.buckets[bid]
                     /\ HoldersAfter(bid) = {Len(frames')}]_vars

\* A guest frame has just called another with a bucket holding units as the
\* argument: the callee owns it when it starts.
C12_Witness ==
    /\ Succeeded("call")
    /\ Len(frames) = 3
    /\ \E bid \in DOMAIN frames[3].buckets : frames[3].buckets[bid].amount > 0

\* ---------------------------------------------------------------- authority
\* The package of the executing frame.
Package == Top.package

\* The components, storage maps, vaults and mutable resources whose
\* authority is a package other than that of the executing frame.
ForeignComponents == {c \in DOMAIN components : components[c].blueprint[1] # Package}

ForeignStorages == {sid \in DOMAIN storages : storages[sid].auth # Package}

ForeignVaults == {v \in DOMAIN vaults : vaults[v].auth # Package}

ForeignResources ==
    {r \in DOMAIN resource_defs :
        resource_defs[r].auth # "None" /\ resource_defs[r].auth # Package}

\* A payload without bucket or reference leaves.
HandleFree(data) == Leaves(data) = << >>

\* C13: Authority safety.  No step taken by a frame of package P changes a
\* component's state, a storage map's entries, a vault's balance or a mutable
\* resource's supply whose authority is a package other than P; every such
\* host call fails and leaves the target unchanged, with UnauthorizedAccess
\* (component, storage, vault) or UnauthorizedToMint (resource) whenever the
\* handler gets as far as the target, that is, whenever the payload holds no
\* handle and the bucket to deposit is owned.
C13_AuthoritySafety ==
    /\ [][/\ \A c \in DOMAIN components :
               components'[c] # components[c] => components[c].blueprint[1] = Package
          /\ \A sid \in DOMAIN storages :
               storages'[sid] # storages[sid] => storages[sid].auth = Package
          /\ \A v \in DOMAIN vaults :
               vaults'[v] # vaults[v] => vaults[v].auth = Package
          /\ \A r \in DOMAIN resource_defs :
               resource_defs'[r] # resource_defs[r] => resource_defs[r].auth = Package]_vars
    /\ [](InGuest =>
            /\ \A c \in ForeignComponents, state \in States :
                  LET r == handle_put_component_state(Top, components, c, state)
                  IN /\ r.result # "Ok" /\ r.components = components
                     /\ HandleFree(state) => r.result = "UnauthorizedAccess"
            /\ \A sid \in ForeignStorages, e \in Entries :
                  LET r == handle_put_storage_entry(Top, storages, sid, e[1], e[2])
                  IN /\ r.result # "Ok" /\ r.storages = storages
                     /\ (HandleFree(e[1]) /\ HandleFree(e[2])) => r.result = "UnauthorizedAccess"
            /\ \A v \in ForeignVaults :
                  /\ \A bid \in Bids :
                        LET r == handle_put_into_vault(Top, vaults, bid, v)
                        IN /\ r.result # "Ok" /\ r.vaults = vaults
                           /\ bid \in DOMAIN Top.buckets => r.result = "UnauthorizedAccess"
                  /\ \A amount \in Amounts :
                        LET r == handle_take_from_vault(Top, vaults, counters.bid, v, amount)
                        IN r.result = "UnauthorizedAccess" /\ r.vaults = vaults /\ r.self = Top
            /\ \A res \in ForeignResources, amount \in Amounts :
                  LET r == handle_mint_resource(Top, resource_defs, counters.bid, res, amount)
                  IN /\ r.result = "UnauthorizedToMint"
                     /\ r.resource_defs = resource_defs /\ r.self = Top)

\* A guest tried to write an entry of a storage map of the other package that
\* holds an entry: the call failed with UnauthorizedAccess.
C13_Witness ==
    /\ status = "failed"
    /\ last.op = "put_storage_entry" /\ last.result = "UnauthorizedAccess"
    /\ \E sid \in DOMAIN storages : DOMAIN storages[sid].entries # {}

C15_ReadAuthority ==
    /\ [](InGuest =>
            /\ \A c \in DOMAIN components :
                  LET info == handle_get_component_info(Top, components, c)
                      st == handle_get_component_state(Top, components, c)
                  IN IF components[c].blueprint[1] # Package
                     THEN /\ info.result = "UnauthorizedAccess"
                          /\ st.result = "UnauthorizedAccess"
                     ELSE /\ info.result = "Ok" /\ info.value = components[c].blueprint
                          /\ st.result = "Ok" /\ st.value = components[c].state
            /\ \A sid \in DOMAIN storages, key \in Keys :
                  LET r == handle_get_storage_entry(Top, storages, sid, key)
                  IN IF storages[sid].auth # Package
                     THEN r.result = "UnauthorizedAccess"
                     ELSE r.result = "Ok" /\ r.value = StorageGetEntry(storages[sid], key))
    /\ [][/\ \A c \in Components, state \in States :
               /\ (PutComponentState(c, state) /\ status' = "running") =>
                     LET r == handle_get_component_state(Top', components', c)
                     IN r.result = "Ok" /\ r.value = state
               /\ (/\ CreateComponent("Bp", state) /\ status' = "running"
                   /\ c = ComponentAddress(counters.com)) =>
                     LET r == handle_get_component_state(Top', components', c)
                     IN r.result = "Ok" /\ r.value = state
          /\ \A c \in DOMAIN components :
               components'[c].state # components[c].state =>
                  \E state \in States : PutComponentState(c, state)
          /\ \A sid \in Sids, e \in Entries :
               (PutStorageEntry(sid, e[1], e[2]) /\ status' = "running") =>
                  LET r == handle_get_storage_entry(Top', storages', sid, e[1])
                  IN r.result = "Ok" /\ r.value = <<"Some", e[2]>>]_vars

\* A guest has just read the state of the only component of its package,
\* after that state was replaced.
C15_Witness ==
    /\ Succeeded("get_component_state")
    /\ components[ComponentAddress(1)].blueprint[1] = Package
    /\ components[ComponentAddress(1)].state = Plain
    /\ \A c \in DOMAIN components \ {ComponentAddress(1)} :
          components[c].blueprint[1] # Package

\* C16: authority is checked against the package of the executing frame.
\* The frame spawned by call_method on component C runs under the package of
\* C's blueprint whichever package made the call, so get_component_state(C)
\* and put_component_state(C) issued by it pass the authority check; the
\* same calls on C from a frame of any other package fail.
C16_AuthorityOfExecutingFrame ==
    /\ [][\A c \in Components :
             (CallMethod(c, << >>) /\ status' = "running") =>
                /\ Top'.package = components[c].blueprint[1]
                /\ handle_get_component_state(Top', components', c).result = "Ok"
                /\ \A state \in States :
                      LET r == handle_put_component_state(Top', components', c, state)
                      IN r.result # "UnauthorizedAccess"
                         /\ (HandleFree(state) => r.result = "Ok")]_vars
    /\ [](InGuest =>
            \A c \in DOMAIN components :
               Package # components[c].blueprint[1] =>
                  /\ handle_get_component_state(Top, components, c).result
                        = "UnauthorizedAccess"
                  /\ \A state \in States :
                        LET r == handle_put_component_state(Top, components, c, state)
                        IN r.result # "Ok"
                           /\ (HandleFree(state) => r.result = "UnauthorizedAccess"))

\* A frame of one package, called by a guest of the other package, has
\* written the state of a component that its own package created.
C16_Witness ==
    /\ Succeeded("put_component_state")
    /\ Len(frames) = 3
    /\ frames[2].package # frames[3].package
    /\ \E c \in DOMAIN components :
          /\ components[c].blueprint[1] = frames[3].package
          /\ components[c].state = NestedRid \/ components[c].state = Plain
          /\ c # ComponentAddress(1)

\* The payloads that hold a bucket or a reference leaf: at the top, nested
\* in an Option, a Tuple, a Struct or a map, and three levels deep.
Deep == Composite("Box", <<Composite("Vec", <<Composite("Enum", <<Unit, RidLeaf(2)>>)>>)>>)

Tainted == {data \in Payloads \cup States \cup {Deep} : ~HandleFree(data)}

\* The error of the reject walk on a payload: that of the first handle leaf.
MoveError(data) ==
    IF Head(Leaves(data))[1] = SCRYPTO_TYPE_BID
    THEN "BucketMoveNotAllowed" ELSE "ReferenceMoveNotAllowed"

\* The executing frame, and the same frame holding every reference id.
Callers ==
    {Top, [Top EXCEPT !.references =
                 [rid \in Rids |-> LockedBucket(1, Bucket(0, ResourceAddress(1)))]]}

\* C17: reject walker.  create_component, put_component_state and
\* put_storage_entry fail with BucketMoveNotAllowed or ReferenceMoveNotAllowed
\* whenever the state, key or value holds a bucket or reference leaf at any
\* depth, owned by the frame or not; no component is created, component
\* states and storage maps are unchanged, and so are the frame's buckets and
\* references.
C17_RejectWalker ==
    /\ [](InGuest =>
            \A self \in Callers, data \in Tainted :
               /\ LET r == handle_create_component(self, components,
                                                  ComponentAddress(counters.com), "Bp", data)
                  IN /\ r.result = MoveError(data)
                     /\ r.components = components /\ r.self = self
               /\ \A c \in Components :
                     LET r == handle_put_component_state(self, components, c, data)
                     IN /\ r.result = MoveError(data)
                        /\ r.components = components /\ r.self = self
               /\ \A sid \in Sids, clean \in Keys :
                     LET k == handle_put_storage_entry(self, storages, sid, data, clean)
                         v == handle_put_storage_entry(self, storages, sid, clean, data)
                     IN /\ k.result = MoveError(data) /\ v.result = MoveError(data)
                        /\ k.storages = storages /\ v.storages = storages
                        /\ k.self = self /\ v.self = self)
    /\ [][/\ \A state \in States \cap Tainted :
               /\ CreateComponent("Bp", state) =>
                     /\ status' = "failed" /\ last'.result = MoveError(state)
                     /\ components' = components
               /\ \A c \in Components :
                     PutComponentState(c, state) =>
                        /\ status' = "failed" /\ last'.result = MoveError(state)
                        /\ components' = components
          /\ \A sid \in Sids, e \in Entries :
               (PutStorageEntry(sid, e[1], e[2]) /\ ~(HandleFree(e[1]) /\ HandleFree(e[2]))) =>
                  /\ status' = "failed"
                  /\ last'.result \in {"BucketMoveNotAllowed", "ReferenceMoveNotAllowed"}
                  /\ storages' = storages]_vars

\* After bucket ids 1 and 2 were handed out, a guest asked for a component
\* whose state names bucket 2: the call failed, the address was used up and
\* nothing was created.
C17_Witness ==
    /\ status = "failed"
    /\ last.op = "create_component" /\ last.result = "BucketMoveNotAllowed"
    /\ counters.com = 3 /\ counters.bid = 3
    /\ DOMAIN components = {ComponentAddress(1)}

\* C18: in every reachable state no stored component state and no stored
\* storage key or value holds a bucket id or a reference id.
C18_PersistentDataHandleFree ==
    /\ \A c \in DOMAIN components : HandleFree(components[c].state)
    /\ \A sid \in DOMAIN storages :
          \A key \in DOMAIN storages[sid].entries :
             HandleFree(key) /\ HandleFree(storages[sid].entries[key])

\* A created component and a storage entry are on the ledger, and a later
\* write of a payload with a reference leaf has been turned down.
C18_Witness ==
    /\ status = "failed" /\ last.result = "ReferenceMoveNotAllowed"
    /\ \E c \in DOMAIN components \ {ComponentAddress(1)} : components[c].state = Plain
    /\ \E sid \in DOMAIN storages : DOMAIN storages[sid].entries # {}

\* Amounts up to one more than any balance.
Requests == 0..(MaxAmount + 1)

\* C19: take_from_bucket with an amount greater than the bucket's balance
\* fails with InsufficientBalance; the bucket is still owned with its balance
\* unchanged and no bucket has been created.  With an amount up to the
\* balance it succeeds, creates a fresh bucket holding exactly that amount of
\* the same resource and reduces the source by that amount.
C19_TakeFromBucket ==
    /\ [](InGuest =>
            \A bid \in DOMAIN Top.buckets, amount \in Requests :
               LET source == Top.buckets[bid]
                   r == handle_take_from_bucket(Top, counters.bid, bid, amount)
               IN IF amount > source.amount
                  THEN r.result = "InsufficientBalance" /\ r.self = Top
                  ELSE /\ r.result = "Ok"
                       /\ BucketPlaces(counters.bid) = {}
                       /\ DOMAIN r.self.buckets = DOMAIN Top.buckets \cup {counters.bid}
                       /\ r.self.buckets[counters.bid] = Bucket(amount, source.resource)
                       /\ r.self.buckets[bid] = Bucket(source.amount - amount, source.resource)
                       /\ \A other \in DOMAIN Top.buckets \ {bid} :
                             r.self.buckets[other] = Top.buckets[other])
    /\ [][\A bid \in Bids, amount \in Amounts :
             (TakeFromBucket(bid, amount) /\ bid \in DOMAIN Top.buckets) =>
                IF amount > Top.buckets[bid].amount
                THEN /\ status' = "failed" /\ last'.result = "InsufficientBalance"
                     /\ counters' = counters
                ELSE /\ status' = "running"
                     /\ Top'.buckets[counters.bid] = Bucket(amount, Top.buckets[bid].resource)
                     /\ Top'.buckets[bid].amount = Top.buckets[bid].amount - amount
                     /\ \A res \in Resources :
                           FrameTotal(Top', res) = FrameTotal(Top, res)]_vars

\* A guest has just taken a positive amount out of a bucket: the newest
\* bucket holds it and another bucket of the same resource is left empty.
C19_Witness ==
    /\ Succeeded("take_from_bucket")
    /\ counters.bid - 1 \in DOMAIN Top.buckets
    /\ Top.buckets[counters.bid - 1].amount = MaxAmount
    /\ \E bid \in DOMAIN Top.buckets :
          /\ bid # counters.bid - 1
          /\ Top.buckets[bid] = Bucket(0, Top.buckets[counters.bid - 1].resource)

\* C20: take_from_vault fails with InsufficientBalance when the amount
\* exceeds the vault's balance and with UnauthorizedAccess when the package of
\* the executing frame is not the vault's authority; either way the vault is
\* unchanged and no bucket is added to the frame.  On success the vault's
\* balance decreases by exactly the amount and a fresh owned bucket holds
\* exactly that amount of the vault's resource.
C20_TakeFromVault ==
    /\ [](InGuest =>
            \A v \in DOMAIN vaults, amount \in Requests :
               LET r == handle_take_from_vault(Top, vaults, counters.bid, v, amount)
                   held == vaults[v].bucket
               IN IF vaults[v].auth # Package
                  THEN r.result = "UnauthorizedAccess" /\ r.vaults = vaults /\ r.self = Top
                  ELSE IF amount > held.amount
                  THEN r.result = "InsufficientBalance" /\ r.vaults = vaults /\ r.self = Top
                  ELSE /\ r.result = "Ok"
                       /\ r.vaults = [vaults EXCEPT ![v].bucket.amount = @ - amount]
                       /\ counters.bid \notin DOMAIN Top.buckets
                       /\ r.self = [Top EXCEPT !.buckets =
                                       MapInsert(@, counters.bid, Bucket(amount, held.resource))])
    /\ [][\A v \in Vids :
             (TakeFromVault(v, MaxAmount) /\ v \in DOMAIN vaults) =>
                IF vaults[v].auth = Package /\ MaxAmount <= vaults[v].bucket.amount
                THEN /\ status' = "running"
                     /\ vaults'[v].bucket.amount = vaults[v].bucket.amount - MaxAmount
                     /\ Top'.buckets[counters.bid] = Bucket(MaxAmount, vaults[v].bucket.resource)
                ELSE /\ status' = "failed" /\ vaults' = vaults /\ counters' = counters
                     /\ last'.result = IF vaults[v].auth # Package
                                        THEN "UnauthorizedAccess"
                                        ELSE "InsufficientBalance"]_vars

\* A guest has just taken the whole balance out of a vault of its package.
C20_Witness ==
    /\ Succeeded("take_from_vault")
    /\ counters.bid - 1 \in DOMAIN Top.buckets
    /\ Top.buckets[counters.bid - 1].amount = MaxAmount
    /\ \E v \in DOMAIN vaults :
          /\ vaults[v].auth = Package
          /\ vaults[v].bucket = Bucket(0, Top.buckets[counters.bid - 1].resource)

\* ------------------------------------------------------------- resources
\* The resources created by create_resource_fixed: no minter, no authority.
FixedResources == {r \in DOMAIN resource_defs : resource_defs[r].auth = "None"}

\* C21: fixed supply is immutable.  create_resource_fixed with supply s
\* records supply s and puts exactly s into a fresh bucket; the recorded
\* supply of a fixed resource is the same in every later state; every
\* mint_resource on it, from a frame of any package, fails with
\* UnableToMintFixedResource and creates no bucket.
C21_FixedSupplyImmutable ==
    /\ [][/\ \A supply \in Amounts :
               (CreateResourceFixed(supply) /\ status' = "running") =>
                  \E address \in Resources, bid \in Bids :
                     /\ address = ResourceAddress(counters.res) /\ bid = counters.bid
                     /\ address \notin DOMAIN resource_defs
                     /\ resource_defs'[address].supply = supply
                     /\ resource_defs'[address].auth = "None"
                     /\ BucketPlaces(bid) = {}
                     /\ Top'.buckets[bid] = Bucket(supply, address)
                     /\ Total(address)' = supply
          /\ \A r \in FixedResources :
               r \in DOMAIN resource_defs' /\ resource_defs'[r] = resource_defs[r]
          /\ \A r \in FixedResources, amount \in Amounts :
               MintResource(r, amount) =>
                  /\ status' = "failed" /\ last'.result = "UnableToMintFixedResource"
                  /\ counters' = counters]_vars
    /\ [](InGuest =>
            \A r \in FixedResources, amount \in Requests, package \in Packages :
               LET self == [Top EXCEPT !.package = package]
                   m == handle_mint_resource(self, resource_defs, counters.bid, r, amount)
               IN /\ m.result = "UnableToMintFixedResource"
                  /\ m.self = self /\ m.resource_defs = resource_defs)

\* A guest tried to mint a fixed resource of which units exist: the call
\* failed with UnableToMintFixedResource.
C21_Witness ==
    /\ status = "failed"
    /\ last.op = "mint_resource" /\ last.result = "UnableToMintFixedResource"
    /\ \E r \in FixedResources : resource_defs[r].supply = MaxAmount

\* The resources created by create_resource_mutable.
MutableResources == DOMAIN resource_defs \ FixedResources

\* C22: mint_resource on a mutable resource succeeds only when the package
\* of the executing frame is the resource's authority; then the recorded
\* supply grows by exactly the minted amount and a fresh owned bucket holds
\* exactly that amount.  From another package it fails with
\* UnauthorizedToMint, the supply is unchanged and no bucket is created.
C22_MintMutable ==
    /\ [](InGuest =>
            \A r \in MutableResources, amount \in Requests :
               LET m == handle_mint_resource(Top, resource_defs, counters.bid, r, amount)
               IN IF resource_defs[r].auth = Package
                  THEN /\ m.result = "Ok"
                       /\ m.resource_defs =
                             [resource_defs EXCEPT ![r].supply = @ + amount]
                       /\ BucketPlaces(counters.bid) = {}
                       /\ m.self = [Top EXCEPT !.buckets =
                                       MapInsert(@, counters.bid, Bucket(amount, r))]
                  ELSE /\ m.result = "UnauthorizedToMint"
                       /\ m.resource_defs = resource_defs /\ m.self = Top)
    /\ [][\A r \in MutableResources, bid \in Bids :
             (MintResource(r, MaxAmount) /\ bid = counters.bid) =>
                IF resource_defs[r].auth = Package
                THEN /\ status' = "running"
                     /\ resource_defs'[r].supply = resource_defs[r].supply + MaxAmount
                     /\ Top'.buckets[bid] = Bucket(MaxAmount, r)
                     /\ DOMAIN Top'.buckets = DOMAIN Top.buckets \cup {bid}
                     /\ counters'.bid = bid + 1
                ELSE /\ status' = "failed" /\ last'.result = "UnauthorizedToMint"
                     /\ resource_defs' = resource_defs /\ counters' = counters]_vars

\* A guest of the authority package has just minted units: the newest bucket
\* holds them and the recorded supply counts them.
C22_Witness ==
    /\ Succeeded("mint_resource")
    /\ \E r \in MutableResources :
          /\ resource_defs[r].auth = Package
          /\ resource_defs[r].supply = MaxAmount
          /\ counters.bid - 1 \in DOMAIN Top.buckets
          /\ Top.buckets[counters.bid - 1] = Bucket(MaxAmount, r)

\* C23: a failed put_into_bucket (destination missing or locked, source and
\* destination the same id, different resources) or put_into_vault (vault
\* missing, frame not the vault's authority, resource mismatch) leaves the
\* source bucket in the frame's owned set with its balance unchanged, so the
\* frame's per-resource total is unchanged.
C23_FailedPutKeepsSource ==
    InGuest =>
       \A other \in DOMAIN Top.buckets :
          /\ \A bucket \in Bids :
                LET r == handle_put_into_bucket(Top, bucket, other)
                IN r.result # "Ok" =>
                      /\ other \in DOMAIN r.self.buckets
                      /\ r.self.buckets[other] = Top.buckets[other]
                      /\ \A res \in Resources : FrameTotal(r.self, res) = FrameTotal(Top, res)
          /\ \A vault \in Vids :
                LET r == handle_put_into_vault(Top, vaults, other, vault)
                IN r.result # "Ok" =>
                      /\ other \in DOMAIN r.self.buckets
                      /\ r.self.buckets[other] = Top.buckets[other]
                      /\ \A res \in Resources : FrameTotal(r.self, res) = FrameTotal(Top, res)

\* ------------------------------------------------------------- failures
\* The error with which the run and finalize of the executing frame end when
\* its export hands back r, or "Ok".
ChildError(r) ==
    IF r[1] = "none" THEN "NoReturnValue"
    ELSE IF r[1] = "wrong" THEN "InvalidReturnType"
    ELSE LET w == process_data(Top, r[2], "move")
         IN IF w.result # "Ok" THEN w.result ELSE finalize(w.self)

\* C24: failure propagation.  When the run of a child fails (missing
\* package or export, a trap from any host call, a bad return) or its
\* finalize fails, the call ends with that same error, nothing of the child
\* is installed in any caller, and the error goes up through every enclosing
\* frame to the top-level caller: no frame executes again.
C24_FailurePropagation ==
    [][/\ last'.op = "return" =>
            \A r \in Returns :
               (ChildError(r) # "Ok" /\ ReturnFromRun(r[1], r[2])) =>
                  /\ status' = "failed" /\ last'.result = ChildError(r)
                  /\ frames' = <<frames[1]>>
       /\ (InGuest /\ last'.op = "call") =>
            \A c \in Calls :
               (/\ c[1][1] \notin Packages \/ c[1][2] \notin Blueprints
                /\ process_args(Top, c[2]).result = "Ok"
                /\ CallFunction(c[1], c[2])) =>
                  /\ status' = "failed"
                  /\ last'.result = IF c[1][1] \notin Packages
                                     THEN "PackageNotFound" ELSE "InvokeError"
                  /\ frames' = <<frames[1]>>
       /\ (InGuest /\ last'.result # "Ok") =>
               status' = "failed" /\ frames' = <<frames[1]>>
       /\ status = "failed" => (status' = "failed" /\ frames' = frames)
       /\ status # "failed"]_vars

\* A frame two calls below the root driver failed and nothing but the root
\* process is left.
C24_Witness ==
    /\ status = "failed"
    /\ last.op = "return" /\ last.result = "InvalidReturnType"
    /\ frames = <<NewProcess>>
    /\ counters.bid > MaxBid

\* ----------------------------------------------------------- transactions
\* The ledger before the transaction.
PreLedger ==
    [resource_defs |-> EmptyMap, vaults |-> EmptyMap,
     components |-> LedgerComponents, storages |-> EmptyMap, packages |-> LedgerPackages]

Suspended == 1..(Len(frames) - 1)

\* C26: serial depth-first execution.  The live frames form a stack with
\* depths 0, 1, .., n, each child one deeper than its parent; only the
\* deepest frame executes: a step changes no suspended frame, except that a
\* child's successful return hands its moving sets to its parent and ends the
\* child, and a failure discards every guest frame at once; a child is spawned by the deepest frame only, so a parent makes no
\* host call while a child of it lives and a second child starts only after
\* the first was finalized and discarded.
C26_SerialDepthFirst ==
    /\ [](/\ Len(frames) >= 1
          /\ \A i \in DOMAIN frames : frames[i].depth = i - 1)
    /\ [][/\ status' = "running" =>
               Len(frames') \in {Len(frames) - 1, Len(frames), Len(frames) + 1}
          /\ status' = "failed" => Len(frames') = 1
          /\ \A i \in Suspended :
               \/ i \in DOMAIN frames' /\ frames'[i] = frames[i]
               \/ i = Len(frames) - 1 /\ ReturnStep
               \/ i > 1 /\ status' = "failed"
          /\ Len(frames') = Len(frames) + 1 =>
               /\ last'.op = "call"
               /\ frames'[Len(frames')].depth = Top.depth + 1
          /\ (status' = "running" /\ last'.op \notin {"call", "return"}) =>
               Len(frames') = Len(frames)
          /\ ReturnStep =>
               \E r \in DataReturns :
                  /\ ChildError(r) = "Ok"
                  /\ frames'[Len(frames')] # frames[Len(frames')] =>
                        Leaves(r[2]) # << >> \/ last'.unlocked # {}]_vars

\* A guest that holds units is suspended in a call and its child has made a
\* host call of its own.
C26_Witness ==
    /\ Len(frames) = 3
    /\ Succeeded("create_bucket")
    /\ \E bid \in DOMAIN frames[2].buckets : frames[2].buckets[bid].amount > 0
    /\ DOMAIN frames[3].buckets # {}

\* ------------------------------------------------------------ the airdrop
\* The units of HT a package holds: in its vaults and in the buckets of its
\* live frames (the root process has no package).
Holdings(package) ==
    SumOver(VaultsOf(package), [v \in DOMAIN vaults |-> vaults[v].bucket.amount])
    + SumOver({i \in DOMAIN frames \ {1} : frames[i].package = package},
              [i \in DOMAIN frames |-> FrameTotal(frames[i], HT)])

\* The vault Hello::new made, named by the component's state.
HelloVault == vaults[components[HelloComponent].state.values[1].data]

\* Hello was built with 1000 units.
Thousand == HT \in DOMAIN resource_defs /\ resource_defs[HT].supply = 1000

\* C27: the airdrop scenario.  Hello::new makes 1000 units of a fixed
\* resource and puts them in a vault; airdrop, called by a frame of another
\* package, takes 1 unit and returns the bucket; the caller deposits it in a
\* vault of its own.  Every host call, return and finalize of the scenario
\* succeeds (no ResourceLeak); the caller holds nothing before the airdrop
\* returns and exactly 1 unit from then on; the resource definition never
\* changes, so the supply stays 1000; and when the transaction is committed
\* the component's vault holds 999, the caller's vault 1, and no frame holds
\* a bucket.
C27_Airdrop ==
    /\ [](Thousand =>
            /\ status # "failed"
            /\ last.result = "Ok"
            /\ Supply(HT) = Total(HT)
            /\ Holdings(CallerPackage) \in {0, 1})
    /\ []((Thousand /\ status = "committed") =>
            /\ HelloVault.bucket = Bucket(999, HT)
            /\ HelloVault.auth = HelloPackage
            /\ \E v \in VaultsOf(CallerPackage) : vaults[v].bucket = Bucket(1, HT)
            /\ Holdings(CallerPackage) = 1
            /\ Holdings(HelloPackage) = 999
            /\ frames = <<NewProcess>>
            /\ ledger = RuntimeView)
    /\ [][/\ HT \in DOMAIN resource_defs => resource_defs' = resource_defs
          /\ (Thousand /\ Holdings(CallerPackage)' # Holdings(CallerPackage)) =>
               /\ ReturnStep
               /\ Top.package = HelloPackage
               /\ Holdings(CallerPackage)' = Holdings(CallerPackage) + 1
               /\ Holdings(HelloPackage)' = 999
          /\ (Thousand /\ last'.op = "take_from_vault") =>
               /\ HelloVault.bucket.amount = 1000
               /\ HelloVault'.bucket.amount = 999
               /\ frames'[Len(frames')].buckets = (counters.bid :> Bucket(1, HT))]_vars

\* The scenario has run to its end: Hello was built with 1000 units, the
\* caller's vault holds the unit airdrop gave it, and the transaction is
\* committed.
C27_Witness ==
    /\ Thousand
    /\ status = "committed"
    /\ last.op = "finalize"
    /\ HelloVault.bucket.amount = 999
    /\ \E v \in VaultsOf(CallerPackage) : vaults[v].bucket.amount = 1

\* --------------------------------------------------- the walker's output
\* The payloads walked: flat and nested, with and without handles.
WalkInputs == Payloads \cup States \cup {Deep, HelloState(1)}

RECURSIVE Shape(_)
RECURSIVE ShapeOfSeq(_)
RECURSIVE ShapeOfPairs(_)

\* A value with the data of its custom leaves blanked: kinds, arities and
\* tags remain.
Shape(v) ==
    CASE v.kind = "Custom" -> Custom(v.ty, 0)
      [] v.kind \in {"TreeMap", "HashMap"} -> MapValue(v.kind, ShapeOfPairs(v.pairs))
      [] v.kind = "Unit" -> v
      [] OTHER -> Composite(v.kind, ShapeOfSeq(v.values))

ShapeOfSeq(vs) == IF vs = << >> THEN << >> ELSE <<Shape(Head(vs))>> \o ShapeOfSeq(Tail(vs))

ShapeOfPairs(ps) ==
    IF ps = << >> THEN << >>
    ELSE << <<Shape(Head(ps)[1]), Shape(Head(ps)[2])>> >> \o ShapeOfPairs(Tail(ps))

LiveBids == {bid \in 1..(MaxBid + 1) : BucketPlaces(bid) # {}}

LiveRids == {rid \in 1..(MaxRid + 1) : RefHolders(rid) # {}}

RECURSIVE FirstUnowned(_, _, _)

\* What a walk over the handle leaves must report when the caller owns the
\* buckets bids and the references rids: the leaves are met in order, each
\* one met leaves the owned set, and the first that is not owned decides.
FirstUnowned(bids, rids, leaves) ==
    IF leaves = << >> THEN "Ok"
    ELSE LET leaf == Head(leaves)
         IN IF leaf[1] = SCRYPTO_TYPE_BID
            THEN IF leaf[2] \notin bids THEN "BucketNotFound"
                 ELSE FirstUnowned(bids \ {leaf[2]}, rids, Tail(leaves))
            ELSE IF leaf[2] \notin rids THEN "ReferenceNotFound"
                 ELSE FirstUnowned(bids, rids \ {leaf[2]}, Tail(leaves))

\* The verdict on an argument list of the executing frame.
ArgsVerdict(args) ==
    FirstUnowned(DOMAIN Top.buckets, DOMAIN Top.references, LeavesOfSeq(args))

\* C30: the argument walk of a call.  When a bucket or reference leaf of the
\* arguments names an id the caller does not own at the moment the walk
\* meets it (an id never made, a bucket locked by a reference, an id held by
\* another frame, an id an earlier leaf of the same call already moved), the
\* call fails with BucketNotFound for a bucket leaf and ReferenceNotFound
\* for a reference leaf, no child frame is spawned and the transaction
\* fails; when every leaf is owned, the call does not fail with either.
C30_ArgumentWalk ==
    [][(Running /\ last'.op = "call") =>
         /\ \A c \in Calls :
               CallFunction(c[1], c[2]) =>
                  IF ArgsVerdict(c[2]) # "Ok"
                  THEN /\ status' = "failed"
                       /\ last'.result = ArgsVerdict(c[2])
                       /\ Len(frames') = 1
                       /\ Len(frames) >= 2 => frames' = <<frames[1]>>
                  ELSE last'.result \notin {"BucketNotFound", "ReferenceNotFound"}
         /\ \A c \in MethodCalls :
               CallMethod(c[1], c[2]) =>
                  IF ArgsVerdict(c[2]) # "Ok"
                  THEN /\ status' = "failed"
                       /\ last'.result = ArgsVerdict(c[2])
                       /\ Len(frames') = 1
                       /\ Len(frames) >= 2 => frames' = <<frames[1]>>
                  ELSE last'.result \notin {"BucketNotFound", "ReferenceNotFound"}
         /\ last'.result \in {"BucketNotFound", "ReferenceNotFound"} =>
               \/ \E c \in Calls : ArgsVerdict(c[2]) = last'.result
               \/ \E c \in MethodCalls : ArgsVerdict(c[2]) = last'.result]_vars

\* The root named a bucket it owns twice in one call: the first leaf moved
\* it, the second found it gone, and the call failed before any child ran.
C30_Witness ==
    /\ status = "failed"
    /\ last.op = "call"
    /\ last.result = "BucketNotFound"
    /\ frames[1].moving_buckets # EmptyMap
    /\ frames[1].buckets = EmptyMap

\* ------------------------------------------------ what the move walk moves
\* The composite kinds of a Value that hold a sequence of values, and those
\* that hold key-value pairs.
SeqKinds == {"Option", "Box", "Array", "Tuple", "Struct", "Enum", "Vec", "TreeSet", "HashSet"}

MapKinds == {"TreeMap", "HashMap"}

\* One payload of every composite kind with a bucket leaf, a leaf of
\* another custom tag and a primitive leaf; maps with a handle as key and as
\* value; and the same below three more levels.
KindInputs ==
    {Composite(k, <<BidLeaf(1), Custom(SCRYPTO_TYPE_U256, 1), Unit>>) : k \in SeqKinds}
    \cup {Composite(k, <<Composite("Vec", <<RidLeaf(1)>>), Plain>>) : k \in SeqKinds}
    \cup {MapValue(k, << <<BidLeaf(1), RidLeaf(1)>> >>) : k \in MapKinds}
    \cup {MapValue(k, << <<Unit, BidLeaf(1)>>, <<Plain, BidLeaf(2)>> >>) : k \in MapKinds}
    \cup {MapValue(k, << <<RidLeaf(2), Unit>> >>) : k \in MapKinds}
    \cup {Deep, NestedBid, NestedRid}

\* The ids a payload names under a tag.
IdsOf(data, ty) == {Leaves(data)[i][2] : i \in {j \in DOMAIN Leaves(data) : Leaves(data)[j][1] = ty}}

\* C31: the move walk classifies exactly the handle leaves.  After a
\* successful walk of a payload the frame's moving buckets are the ones it
\* had plus the bucket ids of the payload, with the buckets they named, its
\* owned buckets have lost exactly those ids, and likewise for references;
\* nothing else in the frame changes and the value, with its other custom
\* leaves and primitive leaves, is returned as it was.  A walk succeeds
\* exactly when every handle leaf is owned when it is met.
C31_MoveWalkExact ==
    \A data \in KindInputs \cup Payloads :
        LET w == process_data(Top, data, "move")
            bids == IdsOf(data, SCRYPTO_TYPE_BID)
            rids == IdsOf(data, SCRYPTO_TYPE_RID)
        IN /\ w.result = "Ok" <=>
                 FirstUnowned(DOMAIN Top.buckets, DOMAIN Top.references, Leaves(data)) = "Ok"
           /\ w.result = "Ok" =>
                 /\ DOMAIN w.self.buckets = DOMAIN Top.buckets \ bids
                 /\ bids \subseteq DOMAIN Top.buckets
                 /\ DOMAIN w.self.moving_buckets = DOMAIN Top.moving_buckets \cup bids
                 /\ \A bid \in bids : w.self.moving_buckets[bid] = Top.buckets[bid]
                 /\ \A bid \in DOMAIN w.self.buckets : w.self.buckets[bid] = Top.buckets[bid]
                 /\ DOMAIN w.self.references = DOMAIN Top.references \ rids
                 /\ rids \subseteq DOMAIN Top.references
                 /\ DOMAIN w.self.moving_references = DOMAIN Top.moving_references \cup rids
                 /\ \A rid \in rids : w.self.moving_references[rid] = Top.references[rid]
                 /\ w.self.locked_buckets = Top.locked_buckets
                 /\ w.self.package = Top.package
                 /\ w.value = data

\* A guest owns a bucket and holds a reference, and a map with the bucket
\* as a key and the reference as a value walks through.
C31_Witness ==
    /\ InGuest
    /\ 1 \in DOMAIN Top.buckets
    /\ 1 \in DOMAIN Top.references
    /\ \E k \in MapKinds :
          LET w == process_data(Top, MapValue(k, << <<BidLeaf(1), RidLeaf(1)>> >>), "move")
          IN /\ w.result = "Ok"
             /\ DOMAIN w.self.moving_buckets = {1}
             /\ DOMAIN w.self.moving_references = {1}

\* ------------------------------------------------------ mutable resources
\* C32: create_resource_mutable.  With a package as minter the new resource
\* has supply zero, that minter and the minter as authority; with a
\* component that exists, the package of the component's blueprint as
\* authority; with a component that does not exist the call fails with
\* ComponentNotFound, and with any other kind of address with
\* InvalidAddressType, recording nothing.  No bucket is made in any case.
C32_CreateResourceMutable ==
    [][last'.op = "create_resource_mutable" =>
         \A minter \in Minters :
            CreateResourceMutable(minter) =>
               /\ counters'.bid = counters.bid
               /\ last'.result = "Ok" => frames' = frames
               /\ \A address \in Resources \ DOMAIN resource_defs :
                     address = ResourceAddress(counters.res) =>
                        CASE minter[1] = "Package" ->
                                /\ last'.result = "Ok"
                                /\ resource_defs' =
                                      MapInsert(resource_defs, address,
                                                [minter |-> minter, supply |-> 0, auth |-> minter])
                          [] minter[1] = "Component" /\ minter \in DOMAIN components ->
                                /\ last'.result = "Ok"
                                /\ resource_defs' =
                                      MapInsert(resource_defs, address,
                                                [minter |-> minter, supply |-> 0,
                                                 auth |-> components[minter].blueprint[1]])
                          [] minter[1] = "Component" /\ minter \notin DOMAIN components ->
                                /\ last'.result = "ComponentNotFound"
                                /\ status' = "failed"
                                /\ resource_defs' = resource_defs
                          [] OTHER ->
                                /\ last'.result = "InvalidAddressType"
                                /\ status' = "failed"
                                /\ resource_defs' = resource_defs]_vars

\* A guest made a resource whose minter is a component: the authority is
\* the package of the component's blueprint, the supply is zero and no
\* bucket exists.
C32_Witness ==
    /\ Succeeded("create_resource_mutable")
    /\ \E address \in DOMAIN resource_defs :
          /\ resource_defs[address].minter = ComponentAddress(1)
          /\ resource_defs[address].auth = PackageAddress(1)
          /\ resource_defs[address].supply = 0
    /\ counters.bid = 1

\* ------------------------------------------------------- borrowed buckets
\* Every id a guest may name, one of them never made.
AnyBids == 1..(MaxBid + 1)

AnyRids == 1..(MaxRid + 1)

\* C33: querying a borrowed bucket.  In the frame that locks a bucket,
\* get_bucket_amount and get_bucket_resource give the locked bucket's amount
\* and resource; in whichever frame holds a reference, get_ref_amount and
\* get_ref_resource give the amount and resource of the bucket as its
\* locking frame has it; that bucket is the one that was owned when it was
\* first borrowed and it does not change while locked; on an id the frame
\* neither owns nor locks the bucket queries fail with BucketNotFound and on
\* a reference id it does not hold the reference queries fail with
\* ReferenceNotFound.
C33_QueryBorrowed ==
    /\ [](\A i \in DOMAIN frames :
            /\ \A bid \in AnyBids :
                  LET a == handle_get_bucket_amount(frames[i], bid)
                      r == handle_get_bucket_resource(frames[i], bid)
                  IN /\ bid \in DOMAIN frames[i].locked_buckets =>
                           /\ a = OkWith(frames[i], frames[i].locked_buckets[bid].bucket.amount)
                           /\ r = OkWith(frames[i], frames[i].locked_buckets[bid].bucket.resource)
                     /\ bid \notin DOMAIN frames[i].buckets \cup DOMAIN frames[i].locked_buckets =>
                           /\ a.result = "BucketNotFound"
                           /\ r.result = "BucketNotFound"
            /\ \A rid \in AnyRids :
                  LET a == handle_get_ref_amount(frames[i], rid)
                      r == handle_get_ref_resource(frames[i], rid)
                  IN IF rid \in DOMAIN frames[i].references
                     THEN LET bid == frames[i].references[rid].bucket_id
                          IN /\ a.result = "Ok" /\ r.result = "Ok"
                             /\ \E k \in 1..i : bid \in DOMAIN frames[k].locked_buckets
                             /\ \A k \in Lockers(bid) :
                                   /\ a.value = frames[k].locked_buckets[bid].bucket.amount
                                   /\ r.value = frames[k].locked_buckets[bid].bucket.resource
                     ELSE /\ a.result = "ReferenceNotFound"
                          /\ r.result = "ReferenceNotFound")
    /\ [][/\ \A i \in DOMAIN frames, bid \in Bids :
               (/\ bid \in DOMAIN frames[i].locked_buckets
                /\ i \in DOMAIN frames'
                /\ bid \in DOMAIN frames'[i].locked_buckets) =>
                     frames'[i].locked_buckets[bid] = frames[i].locked_buckets[bid]
          /\ \A bid \in Bids :
               (/\ Running
                /\ bid \in DOMAIN Top.buckets
                /\ CreateReference(bid)) =>
                     frames'[Len(frames)].locked_buckets[bid].bucket = Top.buckets[bid]
          /\ \A bid \in Bids :
               /\ GetBucketAmount(bid) =>
                     last'.result = handle_get_bucket_amount(Top, bid).result
               /\ GetBucketResource(bid) =>
                     last'.result = handle_get_bucket_resource(Top, bid).result
          /\ \A rid \in Rids :
               /\ GetRefAmount(rid) => last'.result = handle_get_ref_amount(Top, rid).result
               /\ GetRefResource(rid) =>
                     last'.result = handle_get_ref_resource(Top, rid).result]_vars

\* A callee has asked for the amount behind a reference it was handed: the
\* bucket is locked in its caller and holds units.
C33_Witness ==
    /\ Succeeded("get_ref_amount")
    /\ Len(frames) = 3
    /\ \E rid \in DOMAIN Top.references :
          LET bid == Top.references[rid].bucket_id
          IN /\ bid \in DOMAIN frames[2].locked_buckets
             /\ frames[2].locked_buckets[bid].bucket.amount = MaxAmount
             /\ handle_get_ref_amount(Top, rid).value = MaxAmount
             /\ handle_get_bucket_amount(frames[2], bid).value = MaxAmount

\* ---------------------------------------------------------------- queries
QueryOps ==
    {"get_vault_amount", "get_vault_resource", "get_resource_info",
     "get_bucket_amount", "get_bucket_resource", "get_ref_amount",
     "get_ref_resource", "get_package_address", "get_call_data",
     "get_transaction_hash"}

\* What each query handler leaves of the frame it ran in, over every input.
QueryLeaves(self) ==
    {handle_get_bucket_amount(self, bid).self : bid \in AnyBids}
    \cup {handle_get_bucket_resource(self, bid).self : bid \in AnyBids}
    \cup {handle_get_ref_amount(self, rid).self : rid \in AnyRids}
    \cup {handle_get_ref_resource(self, rid).self : rid \in AnyRids}
    \cup {handle_get_vault_amount(self, vaults, vault).self : vault \in Vids}
    \cup {handle_get_vault_resource(self, vaults, vault).self : vault \in Vids}
    \cup {handle_get_resource_info(self, resource_defs, resource).self :
             resource \in Resources}
    \cup {handle_get_package_address(self).self, handle_get_call_data(self).self,
          handle_get_transaction_hash(self).self}

\* C40: the query host calls only read.  Each of the ten handlers hands the
\* frame back as it got it, with Ok or with an error; a query step changes
\* no resource definition, vault, component, storage, counter or committed
\* ledger entry, and when it succeeds every live frame is as before; and
\* get_vault_amount, get_vault_resource and get_resource_info succeed in a
\* frame of any package whenever the vault or resource exists.
C40_QueriesReadOnly ==
    /\ [](\A i \in DOMAIN frames :
            /\ QueryLeaves(frames[i]) = {frames[i]}
            /\ \A vault \in DOMAIN vaults :
                  /\ handle_get_vault_amount(frames[i], vaults, vault)
                        = OkWith(frames[i], vaults[vault].bucket.amount)
                  /\ handle_get_vault_resource(frames[i], vaults, vault)
                        = OkWith(frames[i], vaults[vault].bucket.resource)
            /\ \A resource \in DOMAIN resource_defs :
                  handle_get_resource_info(frames[i], resource_defs, resource).result = "Ok")
    /\ [][/\ last'.op \in QueryOps =>
               /\ UNCHANGED <<resource_defs, vaults, components, storages, counters, ledger>>
               /\ last'.result = "Ok" => UNCHANGED <<frames, status>>
               /\ last'.result # "Ok" => frames' = <<frames[1]>>
          /\ \A vault \in DOMAIN vaults :
               /\ GetVaultAmount(vault) => last'.result = "Ok"
               /\ GetVaultResource(vault) => last'.result = "Ok"
          /\ \A resource \in DOMAIN resource_defs :
               GetResourceInfo(resource) => last'.result = "Ok"]_vars

\* A guest of one package has read the balance of a vault whose authority is
\* another package, while it holds a bucket and a reference.
C40_Witness ==
    /\ Succeeded("get_vault_amount")
    /\ \E vault \in DOMAIN vaults : vaults[vault].auth # Top.package
    /\ Top.references # EmptyMap
    /\ \E i \in DOMAIN frames : frames[i].locked_buckets # EmptyMap

\* --------------------------------------------------------- move_to_bucket
\* C38: move_to_bucket(amount, resource, bid) succeeds exactly when the
\* owned buckets of that resource total at least amount, and fails with
\* InsufficientBalance otherwise; on success bucket bid holds exactly amount
\* of the resource, the owned buckets of the resource total what they did
\* before, and the owned buckets of every other resource are the same ids
\* with the same contents.
C38_MoveToBucket ==
    [][\A amount \in 0..(MoveAmount + 1), resource \in MoveResources, bid \in 1..MoveBids :
          MoveToBucket(amount, resource, bid) =>
             /\ last'.result = "Ok" <=> BucketsTotal(Top.buckets, resource) >= amount
             /\ last'.result \in {"Ok", "InsufficientBalance"}
             /\ last'.result = "Ok" =>
                   /\ bid \in DOMAIN frames'[1].buckets
                   /\ frames'[1].buckets[bid] = Bucket(amount, resource)
                   /\ BucketsTotal(frames'[1].buckets, resource)
                         = BucketsTotal(Top.buckets, resource)
                   /\ \A other \in MoveResources \ {resource} :
                         /\ {b \in DOMAIN frames'[1].buckets :
                                frames'[1].buckets[b].resource = other}
                              = {b \in DOMAIN Top.buckets : Top.buckets[b].resource = other}
                         /\ \A b \in DOMAIN Top.buckets :
                               Top.buckets[b].resource = other =>
                                  frames'[1].buckets[b] = Top.buckets[b]]_vars

\* Three units were taken out of more than one bucket: the reserved bucket
\* holds two, the remainder bucket one, and a bucket of the other resource
\* is still there.
C38_Witness ==
    /\ Succeeded("move_to_bucket")
    /\ Len(frames) = 1
    /\ \E bid \in DOMAIN Top.buckets, other \in DOMAIN Top.buckets :
          /\ counters.bid - 1 \in DOMAIN Top.buckets
          /\ bid # counters.bid - 1
          /\ Top.buckets[bid] = Bucket(MoveAmount, ResourceAddress(1))
          /\ Top.buckets[counters.bid - 1] = Bucket(1, ResourceAddress(1))
          /\ DOMAIN Top.buckets = {bid, other, counters.bid - 1}
          /\ Top.buckets[other] = Bucket(MoveAmount, ResourceAddress(2))

\* C39: when move_to_bucket fails with InsufficientBalance, the owned
\* buckets of the frame, ids and balances, are what they were before the
\* call.
C39_FailedMoveKeepsBuckets ==
    [][\A amount \in 0..(MoveAmount + 1), resource \in MoveResources, bid \in 1..MoveBids :
          (MoveToBucket(amount, resource, bid) /\ last'.result = "InsufficientBalance") =>
             frames'[1].buckets = Top.buckets]_vars

\* ------------------------------------------------------ discarded frames
\* A frame holds nothing of value: no units in any of its bucket sets, no
\* locked bucket with units and no reference.
HoldsNothing(f) ==
    /\ \A bid \in DOMAIN f.buckets : f.buckets[bid].amount = 0
    /\ \A bid \in DOMAIN f.moving_buckets : f.moving_buckets[bid].amount = 0
    /\ \A bid \in DOMAIN f.locked_buckets : f.locked_buckets[bid].bucket.amount = 0
    /\ f.references = EmptyMap
    /\ f.moving_references = EmptyMap

\* C36: no resources vanish with a discarded frame.  When the export of a
\* guest returns and its finalize succeeds, the frame that is dropped holds
\* no bucket with units in its owned, locked or moving sets and no
\* reference, and every bucket and reference that the walk of its return
\* value put into its moving sets is in the owned sets of its caller after
\* the step; and when the root's finalize succeeds the root process holds
\* no bucket with units and no reference either.
C36_NothingVanishes ==
    /\ [][last'.op = "return" /\ last'.result = "Ok" =>
            \A r \in Returns :
               ReturnFromRun(r[1], r[2]) =>
                  LET n == Len(frames)
                      w == process_data(Top, r[2], "move").self
                      dropped == take_moving_buckets_and_refs(w).self
                  IN /\ Len(frames') = n - 1
                     /\ HoldsNothing(dropped)
                     /\ \A bid \in DOMAIN w.moving_buckets :
                           /\ bid \in DOMAIN frames'[n - 1].buckets
                           /\ frames'[n - 1].buckets[bid] = w.moving_buckets[bid]
                     /\ \A rid \in DOMAIN w.moving_references :
                           /\ rid \in DOMAIN frames'[n - 1].references
                           /\ frames'[n - 1].references[rid] = w.moving_references[rid]]_vars
    /\ [](status = "committed" => HoldsNothing(frames[1]))

\* A callee has handed back a bucket with units and a reference it was
\* given: both are now owned by its caller.
C36_Witness ==
    /\ Succeeded("return")
    /\ Len(frames) = 2
    /\ \E bid \in DOMAIN Top.buckets : Top.buckets[bid].amount = MaxAmount
    /\ Top.references # EmptyMap
    /\ Top.moving_buckets = EmptyMap

\* ------------------------------------------------------------ moving sets
MovingEmpty(f) == f.moving_buckets = EmptyMap /\ f.moving_references = EmptyMap

\* While the transaction runs, between two operations, no live frame has
\* anything in its moving sets.
MovingEmptyWhileRunning == [](Running => \A i \in DOMAIN frames : MovingEmpty(frames[i]))

\* The bucket and reference ids named by an argument list.
ArgIds(args, ty) ==
    {LeavesOfSeq(args)[i][2] :
        i \in {j \in DOMAIN LeavesOfSeq(args) : LeavesOfSeq(args)[j][1] = ty}}

\* A child starts with exactly the buckets and references named in the
\* arguments of the call that made it.
HandedToChild ==
    [][/\ \A c \in Calls :
            (CallFunction(c[1], c[2]) /\ last'.result = "Ok") =>
               /\ DOMAIN frames'[Len(frames')].buckets = ArgIds(c[2], SCRYPTO_TYPE_BID)
               /\ DOMAIN frames'[Len(frames')].references = ArgIds(c[2], SCRYPTO_TYPE_RID)
       /\ \A c \in MethodCalls :
            (CallMethod(c[1], c[2]) /\ last'.result = "Ok") =>
               /\ DOMAIN frames'[Len(frames')].buckets = ArgIds(c[2], SCRYPTO_TYPE_BID)
               /\ DOMAIN frames'[Len(frames')].references = ArgIds(c[2], SCRYPTO_TYPE_RID)]_vars

\* C37: moving sets are used only during a handoff.  Between two operations
\* of a running transaction the moving sets of every live frame are empty;
\* they are empty as well in the frame whose call failed in the walk of its
\* arguments, whether an earlier leaf had been moved or not; and a child
\* starts with exactly the buckets and references named in the arguments of
\* its call.
C37_MovingOnlyInHandoff ==
    /\ MovingEmptyWhileRunning
    /\ [](Running =>
            \A args \in ArgLists :
               process_args(Top, args).result # "Ok" =>
                  MovingEmpty(process_args(Top, args).self))
    /\ HandedToChild

\* -------------------------------------------------------------------- log
\* C34: the transaction log is append-only and ordered.  An emit_log with a
\* level in 0..4 succeeds and puts exactly one entry, the level and the
\* message, after all earlier entries; since only the executing frame makes
\* host calls, the log is in the order in which the frames emitted.  An
\* emit_log with another level fails with InvalidLogLevel and the log stays
\* as it was.  No step takes an entry away or changes one, failing steps
\* included, and only emit_log adds one.
C34_LogAppendOnly ==
    /\ [][/\ \A level \in Levels, message \in Messages :
               EmitLog(level, message) =>
                  IF level \in 0..4
                  THEN /\ last'.result = "Ok"
                       /\ status' = "running"
                       /\ logs' = logs \o << <<Level(level), message>> >>
                  ELSE /\ last'.result = "InvalidLogLevel"
                       /\ status' = "failed"
                       /\ logs' = logs
          /\ Len(logs') >= Len(logs)
          /\ SubSeq(logs', 1, Len(logs)) = logs
          /\ logs' # logs => /\ last' = Outcome("emit_log", "Ok")
                             /\ Len(logs') = Len(logs) + 1
                             /\ Len(frames) >= 2
                             /\ Len(frames') = Len(frames)]_vars
    /\ [](status = "failed" /\ last.op = "emit_log" => last.result = "InvalidLogLevel")

\* Two entries were emitted, then an emit_log named a level that does not
\* exist: the transaction has failed and the two entries are in the log in
\* the order of their emission.
C34_Witness ==
    /\ status = "failed"
    /\ last.op = "emit_log"
    /\ last.result = "InvalidLogLevel"
    /\ logs = << <<"Error", "m1">>, <<"Trace", "m2">> >>

\* --------------------------------------------------------------- packages
\* C35: packages are immutable once published.  publish_at on an address
\* that holds a package fails with PackageAlreadyExists, whatever the code,
\* and the stored packages stay as they were; and no step takes a package
\* away or changes the code stored under an address.
C35_PackagesImmutable ==
    /\ [][/\ \A code \in Codes, address \in DOMAIN packages :
               PublishAt(code, address) =>
                  /\ last'.result = "PackageAlreadyExists"
                  /\ packages' = packages
          /\ \A address \in DOMAIN packages :
               /\ address \in DOMAIN packages'
               /\ packages'[address] = packages[address]]_vars
    /\ [](\A i \in DOMAIN frames, code \in Codes, address \in DOMAIN packages :
            publish_at(frames[i], packages, code, address)
               = [result |-> "PackageAlreadyExists", self |-> frames[i],
                  packages |-> packages])

\* A package was published in this transaction and the root then tried to
\* publish at its address: the call failed and the package has the code it
\* was published with.
C35_Witness ==
    /\ status = "failed"
    /\ last = Outcome("publish_at", "PackageAlreadyExists")
    /\ PackageAddress(3) \in DOMAIN packages
    /\ packages[PackageAddress(3)] = "code1"
    /\ PackageAddress(4) \in DOMAIN packages
    /\ packages[PackageAddress(4)] = "code2"

====
